---- MODULE Spec2Model ----
(***************************************************************************)
(* Mutation-testing orchestration of GuardianOrg/MutationService.         *)
(*                                                                         *)
(* Spec     : GambitService.runMutationTestingWithoutSetup,                *)
(*            testSingleMutant and retestSurvivedMutations running on the  *)
(*            Node event loop: the main async flow, the SIGINT/SIGTERM     *)
(*            handlers testSingleMutant registers, and the file system.    *)
(*                                                                         *)
(* SpecInterrupt : the evaluation loop of the first pass with SIGINT and    *)
(*            SIGTERM delivered to the process.                            *)
(* SpecRun  : the commands runMutationTest and runCoverageAnalysis with    *)
(*            GitService and AIService, the passes being one step.         *)
(*                                                                         *)
(* Every await on a file-system or subprocess call is one action: the      *)
(* call takes effect and the synchronous code after it runs up to the      *)
(* next await.  Signals are delivered between actions.                     *)
(***************************************************************************)
EXTENDS Integers, Sequences, FiniteSets, TLC

(***************************************************************************)
(* Bounds of the model.                                                    *)
(***************************************************************************)
MaxMutants == 1      \* mutants the generator yields for one file
MaxFaults == 2       \* file-system calls that fail in one run
MaxSignals == 2      \* signals delivered to the process in one run
MaxIterations == 2   \* evaluation passes (the first pass plus retests)

(***************************************************************************)
(* The project: the eligible source files, in glob order.                  *)
(***************************************************************************)
sourceFiles == <<"src/A.sol", "src/B.sol">>

Files == {sourceFiles[i] : i \in 1..Len(sourceFiles)}

Signals == {"SIGINT", "SIGTERM"}

\* File contents.  A source file holds its original text or the text of one
\* mutant; "absent" stands for a path that does not exist.
Content(k, f, d, i) == [kind |-> k, file |-> f, dir |-> d, id |-> i]

Original(f) == Content("original", f, "", 0)

MutantText(f, d, i) == Content("mutant", f, d, i)

Absent == Content("absent", "", "", 0)

\* path.basename(sourceFile, '.sol')
Basename(f) == IF f = "src/A.sol" THEN "A" ELSE "B"

\* outdir of the per-file generator config, and of the simplified retry
OutDir(f) == "gambit_out_" \o Basename(f)

SimpleOutDir(f) == "gambit_out_simple_" \o Basename(f)

\* path.join(projectPath, mutantOutputDir, 'mutants', id, originalSourceFile)
MutantPath(d, i, f) == [dir |-> d, id |-> i, file |-> f]

VARIABLES
  proc,         \* "running", "returned", "threw", "exited" (process.exit(1)), "killed" (default signal action)
  pc,           \* the await the main flow is suspended on
  genIdx,       \* i of the generation loop (1-based)
  allMutants,   \* allMutants of runMutationTestingWithoutSetup
  queue,        \* descriptors (or survived results) still to evaluate in this pass
  results,      \* results (full pass) / updatedResults (retest) being built, then returned
  prevResults,  \* previousResults of retestSurvivedMutations
  iteration,    \* number of the evaluation pass
  pass,         \* the pass running or last returned: "full" (runMutationTestingWithoutSetup) or "retest"
  cur,          \* the testSingleMutant call in flight
  evalCount,    \* testSingleMutant calls started so far
  source,       \* file system: source files
  backup,       \* file system: <source>.backup files
  mutantFiles,  \* file system: mutant files under the output directories
  outDirs,      \* file system: gambit_out* directories holding a mutants/ subdirectory
  listeners,    \* process listeners per signal: the evaluations whose handleInterrupt is registered
  handlers,     \* handleInterrupt invocations in flight
  restoreErr,   \* evaluations whose cleanup printed "Failed to restore original file"
  faults,       \* file-system failures so far
  signals,      \* signals delivered so far
  command,          \* the command of the run: "run" (runMutationTest) or "coverage" (runCoverageAnalysis)
  options,          \* RunOptions: which of repo, localPath, cleanup, openaiKey are set
  rpc,              \* the step the command is suspended on
  repoPath,         \* repoPath of the command ("" is null)
  isLocalMode,      \* isLocalMode of runCoverageAnalysis
  dirs,             \* file system: which of the directories of the run exist
  removed,          \* paths handed to fs.rm so far
  mutationResults,  \* mutationResults of runMutationTest
  apiRequests,      \* chat.completions.create calls made so far
  generatedTests,   \* generatedTests of runMutationTest: the files a test file was generated for
  summary,          \* the text handed to saveSummary ("" until then)
  console,          \* the skip notices printed so far
  report,           \* guardian-mutation-analysis.md
  outcome,          \* "running", "done", "cancelled", "failed"
  exposed,          \* the secrets written so far, each with the place it was written to
  called,           \* the pure function applied ("" before the call)
  args,             \* its arguments
  returned,         \* its return value, or the return values of its successive calls
  now,              \* the clock new Date() reads, in seconds
  isForgeProject,   \* whether foundry.toml exists in the project
  answers           \* what the human typed at the confirmation prompt, if asked

passVars == <<proc, pc, genIdx, allMutants, queue, results, prevResults, iteration, pass, cur,
              evalCount, source, backup, mutantFiles, outDirs, listeners, handlers,
              restoreErr, faults, signals>>

runVars == <<command, options, rpc, repoPath, isLocalMode, dirs, removed, mutationResults,
             apiRequests, generatedTests, summary, console, report, outcome, exposed>>

\* A call of one of the pure functions of the services.
callVars == <<called, args, returned, now>>

vars == <<passVars, runVars, callVars, isForgeProject, answers>>

\* cur.start, cur.run, cur.testCommand, cur.failed and cur.sig are history
\* fields: the content of the source file when the call began, how the test
\* command ended, the command that was run, the step whose copy threw
\* ("backup", "substitute: missing", "substitute: copy"), and whether a signal
\* was delivered while the source file held the mutant.
NoEval == [n |-> 0, file |-> "", dir |-> "", id |-> 0, start |-> Absent,
           status |-> "none", run |-> "none", sig |-> FALSE,
            testCommand |-> "", failed |-> ""]

\* String.prototype.toLowerCase, for the letters the model uses.
toLowerCase(str) ==
  LET LowerChar(c) ==
        CASE c = "A" -> "a" [] c = "C" -> "c" [] c = "E" -> "e" [] c = "K" -> "k"
          [] c = "M" -> "m" [] c = "O" -> "o" [] c = "S" -> "s" [] c = "T" -> "t"
          [] c = "Y" -> "y"
          [] OTHER -> c
  IN  [i \in 1..Len(str) |-> LowerChar(str[i])]

\* String.prototype.includes, startsWith and endsWith.
includes(str, sub) ==
  \E i \in 1..(Len(str) + 1) :
    i + Len(sub) - 1 <= Len(str) /\ SubSeq(str, i, i + Len(sub) - 1) = sub

startsWith(str, sub) == Len(sub) <= Len(str) /\ SubSeq(str, 1, Len(sub)) = sub

endsWith(str, sub) ==
  Len(sub) <= Len(str) /\ SubSeq(str, Len(str) - Len(sub) + 1, Len(str)) = sub

\* path.basename: what follows the last "/".
basename(file) ==
  LET slashes == {i \in 1..Len(file) : file[i] = "/"}
      last == IF slashes = {} THEN 0 ELSE CHOOSE i \in slashes : \A j \in slashes : j <= i
  IN  SubSeq(file, last + 1, Len(file))

\* String.prototype.trim, for blanks and line ends.
WhiteSpace == {" ", "\n"}

RECURSIVE trimStart(_)
trimStart(str) ==
  IF str # <<>> /\ Head(str) \in WhiteSpace THEN trimStart(Tail(str)) ELSE str

RECURSIVE trimEnd(_)
trimEnd(str) ==
  IF str # <<>> /\ str[Len(str)] \in WhiteSpace
  THEN trimEnd(SubSeq(str, 1, Len(str) - 1)) ELSE str

trim(str) == trimEnd(trimStart(str))

\* The directories of a run: the caller-supplied local path, the clone the
\* provider creates under its temporary directory, and the output directory.
LocalPath == "localPath"
ClonePath == "tempDir/repoName"
OutputPath == "output"

\* null of `let repoPath: string | null = null`.
NoPath == ""

\* The report before generateMutationAnalysis has built it.
NoReport == [built |-> FALSE, saved |-> FALSE, basicMutationScore |-> 0]

\* No pure function is being applied.
NoCall ==
  /\ called = ""
  /\ args = <<>>
  /\ returned = <<>>
  /\ now = 0

\* A run of the command "run" on a clone, suspended in step 3 on the passes.
AtMutationStep ==
  /\ command = "run"
  /\ options = [repo |-> TRUE, localPath |-> FALSE, cleanup |-> TRUE, openaiKey |-> FALSE,
                token |-> FALSE, verbose |-> FALSE]
  /\ rpc = "mutation"
  /\ repoPath = ClonePath
  /\ isLocalMode = FALSE
  /\ dirs = {ClonePath}
  /\ removed = {}
  /\ mutationResults = <<>>
  /\ apiRequests = 0
  /\ generatedTests = {}
  /\ summary = ""
  /\ console = {}
  /\ report = NoReport
  /\ outcome = "running"
  /\ exposed = {}

Init ==
  /\ proc = "running"
  /\ pc = "gen"
  /\ genIdx = 1
  /\ allMutants = <<>>
  /\ queue = <<>>
  /\ results = <<>>
  /\ prevResults = <<>>
  /\ iteration = 1
  /\ pass = "full"
  /\ cur = NoEval
  /\ evalCount = 0
  /\ source = [f \in Files |-> Original(f)]
  /\ backup = [f \in Files |-> Absent]
  /\ mutantFiles = {}
  /\ outDirs = {}
  /\ listeners = [s \in Signals |-> {}]
  /\ handlers = {}
  /\ restoreErr = {}
  /\ faults = 0
  /\ signals = 0
  /\ AtMutationStep
  /\ NoCall
  /\ isForgeProject \in BOOLEAN
  /\ answers = <<>>

(***************************************************************************)
(* Helpers shared by the passes.                                           *)
(***************************************************************************)
Mutant(f, d, i) == [id |-> i, file |-> f, dir |-> d]

\* The MutationResult testSingleMutant returns, with the mutantId and
\* outputDir the caller stores on it.
Result(m, st) == [file |-> m.file, status |-> st, mutantId |-> m.id, outputDir |-> m.dir]

RECURSIVE Filter(_, _)
Filter(seq, st) ==
  IF seq = <<>> THEN <<>>
  ELSE IF Head(seq).status = st THEN <<Head(seq)>> \o Filter(Tail(seq), st)
  ELSE Filter(Tail(seq), st)

Count(seq, st) == Len(Filter(seq, st))

\* A file-system call may fail (EIO, EACCES, ENOSPC ...) while the budget lasts.
MayFail == faults < MaxFaults

\* handleInterrupt of evaluation n closes over the paths of its source file.
Listener(n, f) == [n |-> n, file |-> f]

\* A finally block that leaves both listeners registered.
RemoveNoListeners(l) == listeners

\* process.removeListener(sig, handleInterrupt), for both signals
RemoveListeners(l) == [s \in Signals |-> listeners[s] \ {l}]

\* process.once(sig, handleInterrupt), for both signals
AddListeners(L, l) == [s \in Signals |-> L[s] \cup {l}]

(***************************************************************************)
(* testSingleMutant, entry: the paths are computed, both listeners are     *)
(* registered and the backup copy is issued.                               *)
(***************************************************************************)
StartEval(m, L) ==
  /\ cur' = [n |-> evalCount + 1, file |-> m.file, dir |-> m.dir, id |-> m.id,
             start |-> source[m.file], status |-> "none", run |-> "none", sig |-> FALSE,
            testCommand |-> "", failed |-> ""]
  /\ evalCount' = evalCount + 1
  /\ listeners' = AddListeners(L, Listener(evalCount + 1, m.file))
  /\ pc' = "backup"

\* The pass returns its result list to the orchestrator.
ReturnPass(res, L) ==
  /\ results' = res
  /\ queue' = <<>>
  /\ cur' = NoEval
  /\ listeners' = L
  /\ pc' = "done"
  /\ UNCHANGED evalCount

\* retestSurvivedMutations: survivors without mutantId/outputDir are kept as
\* survived without any await.
RECURSIVE KeepNoLocation(_, _)
KeepNoLocation(res, q) ==
  IF q = <<>> THEN <<res, q>>
  ELSE IF Head(q).mutantId = 0 \/ Head(q).outputDir = ""
       THEN KeepNoLocation(Append(res, Head(q)), Tail(q))
       ELSE <<res, q>>

\* The loop of the pass goes on with results res and the descriptors q left.
NextInPass(res, q, L, mode) ==
  IF mode = "full"
  THEN IF q = <<>>
       THEN ReturnPass(res, L)
       ELSE /\ StartEval(Head(q), L)
            /\ results' = res
            /\ queue' = Tail(q)
  ELSE LET k == KeepNoLocation(res, q) IN
       IF k[2] = <<>>
       THEN ReturnPass(k[1], L)
       ELSE /\ results' = k[1]
            /\ queue' = k[2]
            /\ cur' = NoEval
            /\ listeners' = L
            /\ pc' = "access"
            /\ UNCHANGED evalCount

(***************************************************************************)
(* runMutationTestingWithoutSetup, generation loop: one iteration.         *)
(***************************************************************************)
\* What one iteration can leave behind: the descriptors parsed from the log
\* of the main config, or of the simplified config when the main one gave
\* none; no descriptors when a call threw or both logs were empty.
GenOutcomes(f) ==
  {<<>>} \cup
  {[i \in 1..n |-> Mutant(f, d, i)] : n \in 1..MaxMutants, d \in {OutDir(f), SimpleOutDir(f)}}

\* The collection of one file's descriptors replacing those gathered so far.
pushOnly(all, ms) == ms

\* allMutants.push(...fileMutants) and allMutants.push(...simpleMutants).
push(all, ms) == all \o ms

GenerateForFile ==
  /\ proc = "running"
  /\ pc = "gen"
  /\ genIdx <= Len(sourceFiles)
  /\ LET f == sourceFiles[genIdx] IN
     \E ms \in GenOutcomes(f), lost \in BOOLEAN :
       LET d == IF ms = <<>> THEN "" ELSE ms[1].dir
           written == {MutantPath(ms[i].dir, ms[i].id, f) :
                         i \in (IF lost THEN 2..Len(ms) ELSE 1..Len(ms))}
           stale == {p \in mutantFiles : p.dir = d}
           all == push(allMutants, ms)
       IN
       /\ lost => (ms # <<>> /\ MayFail)
       /\ faults' = IF lost THEN faults + 1 ELSE faults
       /\ mutantFiles' = (mutantFiles \ stale) \cup written
       /\ outDirs' = IF ms = <<>> THEN outDirs ELSE outDirs \cup {d}
       /\ allMutants' = all
       /\ genIdx' = genIdx + 1
       /\ IF genIdx < Len(sourceFiles)
          THEN UNCHANGED <<proc, pc, queue, results, cur, evalCount, listeners>>
          ELSE IF all = <<>>
          THEN /\ proc' = "threw"
               /\ pc' = "failed"
               /\ UNCHANGED <<queue, results, cur, evalCount, listeners>>
          ELSE /\ NextInPass(<<>>, all, listeners, "full")
               /\ UNCHANGED proc
  /\ UNCHANGED <<runVars, callVars, isForgeProject, answers>>
  /\ UNCHANGED <<prevResults, iteration, pass, source, backup, handlers, restoreErr, signals>>

(***************************************************************************)
(* testSingleMutant, one action per await.                                 *)
(***************************************************************************)
\* finally: cleanup() is over; the listeners are removed, the result is
\* returned, the caller pushes it and goes on with the loop.
FinishEval(err) ==
  /\ restoreErr' = IF err THEN restoreErr \cup {cur.n} ELSE restoreErr
  /\ NextInPass(Append(results, Result(Mutant(cur.file, cur.dir, cur.id), cur.status)),
                queue, RemoveListeners(Listener(cur.n, cur.file)), pass)

\* Step 1: await fs.copyFile(originalFilePath, backupFilePath)
Backup ==
  /\ proc = "running"
  /\ pc = "backup"
  /\ \/ /\ backup' = [backup EXCEPT ![cur.file] = source[cur.file]]
        /\ pc' = "subst"
        /\ UNCHANGED <<cur, faults>>
     \/ /\ MayFail
        /\ faults' = faults + 1
        /\ cur' = [cur EXCEPT !.status = "error", !.failed = "backup"]
        /\ pc' = "rcopy"
        /\ UNCHANGED backup
  /\ UNCHANGED <<runVars, callVars, isForgeProject, answers>>
  /\ UNCHANGED <<proc, genIdx, allMutants, queue, results, prevResults, iteration, pass, evalCount,
                 source, mutantFiles, outDirs, listeners, handlers, restoreErr, signals>>

\* Step 2: await fs.copyFile(mutantFilePath, originalFilePath)
Substitute ==
  /\ proc = "running"
  /\ pc = "subst"
  /\ \/ /\ MutantPath(cur.dir, cur.id, cur.file) \in mutantFiles
        /\ source' = [source EXCEPT ![cur.file] = MutantText(cur.file, cur.dir, cur.id)]
        /\ pc' = "test"
        /\ UNCHANGED <<cur, faults>>
     \/ /\ MutantPath(cur.dir, cur.id, cur.file) \notin mutantFiles
        /\ cur' = [cur EXCEPT !.status = "error", !.failed = "substitute: missing"]
        /\ pc' = "rcopy"
        /\ UNCHANGED <<source, faults>>
     \/ /\ MayFail
        /\ faults' = faults + 1
        /\ cur' = [cur EXCEPT !.status = "error", !.failed = "substitute: copy"]
        /\ pc' = "rcopy"
        /\ UNCHANGED source
  /\ UNCHANGED <<runVars, callVars, isForgeProject, answers>>
  /\ UNCHANGED <<proc, genIdx, allMutants, queue, results, prevResults, iteration, pass, evalCount,
                 backup, mutantFiles, outDirs, listeners, handlers, restoreErr, signals>>

\* The status of the inner try/catch around execAsync(testCommand).
Classify(run) == IF run = "exit0" THEN "survived" ELSE "killed"

\* const testCommand = 'forge test'
testCommand == "forge test"

\* Step 3: await execAsync(testCommand, {timeout: 120000, ...}), which can end
\* with exit code 0, a non-zero exit code, killed at the 2 minute timeout, or
\* not spawned at all.
RunTests ==
  /\ proc = "running"
  /\ pc = "test"
  /\ \E run \in {"exit0", "exitN", "timeout", "spawnfail"} :
       cur' = [cur EXCEPT !.status = Classify(run), !.run = run, !.testCommand = testCommand]
  /\ pc' = "rcopy"
  /\ UNCHANGED <<runVars, callVars, isForgeProject, answers>>
  /\ UNCHANGED <<proc, genIdx, allMutants, queue, results, prevResults, iteration, pass, evalCount,
                 source, backup, mutantFiles, outDirs, listeners, handlers, restoreErr,
                 faults, signals>>

\* finally, cleanup(): await fs.copyFile(backupFilePath, originalFilePath)
RestoreCopy ==
  /\ proc = "running"
  /\ pc = "rcopy"
  /\ \/ /\ backup[cur.file] # Absent
        /\ source' = [source EXCEPT ![cur.file] = backup[cur.file]]
        /\ pc' = "runlink"
        /\ UNCHANGED <<queue, results, cur, evalCount, listeners, restoreErr, faults>>
     \/ /\ backup[cur.file] = Absent
        /\ FinishEval(TRUE)
        /\ UNCHANGED <<source, faults>>
     \/ /\ MayFail
        /\ faults' = faults + 1
        /\ FinishEval(TRUE)
        /\ UNCHANGED source
  /\ UNCHANGED <<runVars, callVars, isForgeProject, answers>>
  /\ UNCHANGED <<proc, genIdx, allMutants, prevResults, iteration, pass, backup, mutantFiles,
                 outDirs, handlers, signals>>

\* A cleanup that leaves the backup file on disk.
unlinkNothing(b, f) == b

\* fs.unlink(backupFilePath): the backup file is gone
unlink(b, f) == [b EXCEPT ![f] = Absent]

\* finally, cleanup(): await fs.unlink(backupFilePath)
RestoreUnlink ==
  /\ proc = "running"
  /\ pc = "runlink"
  /\ \/ /\ backup[cur.file] # Absent
        /\ backup' = unlink(backup, cur.file)
        /\ FinishEval(FALSE)
        /\ UNCHANGED faults
     \/ /\ backup[cur.file] = Absent
        /\ FinishEval(TRUE)
        /\ UNCHANGED <<backup, faults>>
     \/ /\ MayFail
        /\ faults' = faults + 1
        /\ FinishEval(TRUE)
        /\ UNCHANGED backup
  /\ UNCHANGED <<runVars, callVars, isForgeProject, answers>>
  /\ UNCHANGED <<proc, genIdx, allMutants, prevResults, iteration, pass, source, mutantFiles,
                 outDirs, handlers, signals>>

(***************************************************************************)
(* Signals and handleInterrupt.                                            *)
(***************************************************************************)
\* The source file of the evaluation in flight holds the mutant.
Substituted ==
  /\ cur.n > 0
  /\ pc \in {"test", "rcopy"}
  /\ source[cur.file] = MutantText(cur.file, cur.dir, cur.id)

\* A signal is delivered.  The listeners were registered with process.once:
\* each is removed and then called, and handleInterrupt runs up to its first
\* await (the restore copy).  A signal no listener is registered for ends
\* the process at once.
Signal(sig) ==
  /\ proc = "running"
  /\ signals < MaxSignals
  /\ signals' = signals + 1
  /\ cur' = IF Substituted THEN [cur EXCEPT !.sig = TRUE] ELSE cur
  /\ IF listeners[sig] = {}
     THEN /\ proc' = "killed"
          /\ UNCHANGED <<listeners, handlers>>
     ELSE /\ handlers' = handlers \cup
                {[sig |-> sig, n |-> l.n, file |-> l.file, pc |-> "copy"] : l \in listeners[sig]}
          /\ listeners' = [listeners EXCEPT ![sig] = {}]
          /\ UNCHANGED proc
  /\ UNCHANGED <<runVars, callVars, isForgeProject, answers>>
  /\ UNCHANGED <<pc, genIdx, allMutants, queue, results, prevResults, iteration, pass, evalCount,
                 source, backup, mutantFiles, outDirs, restoreErr, faults>>

Move(h, to) == (handlers \ {h}) \cup {[h EXCEPT !.pc = to]}

\* handleInterrupt, cleanup(): await fs.copyFile(backupFilePath, originalFilePath)
HandlerCopy(h) ==
  /\ proc = "running"
  /\ h.pc = "copy"
  /\ \/ /\ backup[h.file] # Absent
        /\ source' = [source EXCEPT ![h.file] = backup[h.file]]
        /\ handlers' = Move(h, "unlink")
        /\ UNCHANGED <<restoreErr, faults>>
     \/ /\ backup[h.file] = Absent
        /\ restoreErr' = restoreErr \cup {h.n}
        /\ handlers' = Move(h, "exit")
        /\ UNCHANGED <<source, faults>>
     \/ /\ MayFail
        /\ faults' = faults + 1
        /\ restoreErr' = restoreErr \cup {h.n}
        /\ handlers' = Move(h, "exit")
        /\ UNCHANGED source
  /\ UNCHANGED <<runVars, callVars, isForgeProject, answers>>
  /\ UNCHANGED <<proc, pc, genIdx, allMutants, queue, results, prevResults, iteration, pass, cur,
                 evalCount, backup, mutantFiles, outDirs, listeners, signals>>

\* handleInterrupt, cleanup(): await fs.unlink(backupFilePath)
HandlerUnlink(h) ==
  /\ proc = "running"
  /\ h.pc = "unlink"
  /\ \/ /\ backup[h.file] # Absent
        /\ backup' = [backup EXCEPT ![h.file] = Absent]
        /\ UNCHANGED <<restoreErr, faults>>
     \/ /\ backup[h.file] = Absent
        /\ restoreErr' = restoreErr \cup {h.n}
        /\ UNCHANGED <<backup, faults>>
     \/ /\ MayFail
        /\ faults' = faults + 1
        /\ restoreErr' = restoreErr \cup {h.n}
        /\ UNCHANGED backup
  /\ handlers' = Move(h, "exit")
  /\ UNCHANGED <<runVars, callVars, isForgeProject, answers>>
  /\ UNCHANGED <<proc, pc, genIdx, allMutants, queue, results, prevResults, iteration, pass, cur,
                 evalCount, source, mutantFiles, outDirs, listeners, signals>>

\* handleInterrupt: process.exit(1) once cleanupHandler() has resolved
HandlerExit(h) ==
  /\ proc = "running"
  /\ h.pc = "exit"
  /\ proc' = "exited"
  /\ UNCHANGED <<runVars, callVars, isForgeProject, answers>>
  /\ UNCHANGED <<pc, genIdx, allMutants, queue, results, prevResults, iteration, pass, cur, evalCount,
                 source, backup, mutantFiles, outDirs, listeners, handlers, restoreErr,
                 faults, signals>>

(***************************************************************************)
(* retestSurvivedMutations.                                                *)
(***************************************************************************)
CarriedNothing(prev) == <<>>

\* updatedResults.push(...killedMutations): the results carried forward
Carried(prev) == Filter(prev, "killed")

\* Entry, up to the await of findMutantDirectories.
RetestBegin ==
  /\ proc = "running"
  /\ pc = "done"
  /\ iteration < MaxIterations
  /\ iteration' = iteration + 1
  /\ pass' = "retest"
  /\ prevResults' = results
  /\ IF Filter(results, "survived") = <<>>
     THEN UNCHANGED <<pc, queue, results>>
     ELSE /\ results' = Carried(results)
          /\ queue' = Filter(results, "survived")
          /\ pc' = "finddirs"
  /\ UNCHANGED <<runVars, callVars, isForgeProject, answers>>
  /\ UNCHANGED <<proc, genIdx, allMutants, cur, evalCount, source, backup, mutantFiles,
                 outDirs, listeners, handlers, restoreErr, faults, signals>>

\* return await this.runMutationTestingWithoutSetup(projectPath, 25)
RetestFallsBack ==
  /\ pc' = "gen"
  /\ pass' = "full"
  /\ genIdx' = 1
  /\ allMutants' = <<>>
  /\ results' = <<>>
  /\ queue' = <<>>
  /\ UNCHANGED <<cur, evalCount, listeners>>

\* A retest that never falls back to a full pass.
noneFoundNever(mutantDirs) == FALSE

\* if (mutantDirs.length === 0)
noneFound(mutantDirs) == mutantDirs = {}

\* await this.findMutantDirectories(projectPath): no directory left means a
\* full pass (runMutationTestingWithoutSetup); otherwise the retest loop starts.
\* A readdir that fails leaves the list of directories empty.
RetestFindDirs ==
  /\ proc = "running"
  /\ pc = "finddirs"
  /\ \E mutantDirs \in {outDirs} \cup (IF MayFail THEN {{}} ELSE {}) :
     /\ faults' = IF mutantDirs = outDirs THEN faults ELSE faults + 1
     /\ IF ~noneFound(mutantDirs)
        THEN /\ NextInPass(results, queue, listeners, "retest")
             /\ UNCHANGED <<genIdx, allMutants, pass>>
        ELSE RetestFallsBack
  /\ UNCHANGED <<runVars, callVars, isForgeProject, answers>>
  /\ UNCHANGED <<proc, prevResults, iteration, source, backup, mutantFiles, outDirs,
                 handlers, restoreErr, signals>>

\* await fs.access(mutantFilePath) for the survivor at the head of the loop
RetestAccess ==
  /\ proc = "running"
  /\ pc = "access"
  /\ LET m == Head(queue) IN
     \/ /\ MutantPath(m.outputDir, m.mutantId, m.file) \in mutantFiles
        /\ StartEval(Mutant(m.file, m.outputDir, m.mutantId), listeners)
        /\ queue' = Tail(queue)
        /\ UNCHANGED <<results, faults>>
     \/ /\ MutantPath(m.outputDir, m.mutantId, m.file) \notin mutantFiles \/ MayFail
        /\ faults' = IF MutantPath(m.outputDir, m.mutantId, m.file) \notin mutantFiles
                     THEN faults ELSE faults + 1
        /\ NextInPass(Append(results, m), Tail(queue), listeners, "retest")
  /\ UNCHANGED <<runVars, callVars, isForgeProject, answers>>
  /\ UNCHANGED <<proc, genIdx, allMutants, prevResults, iteration, pass, source, backup,
                 mutantFiles, outDirs, handlers, restoreErr, signals>>

\* Between two passes the user may clean an output directory of the generator.
RemoveOutputDir(d) ==
  /\ proc = "running"
  /\ pc = "done"
  /\ iteration < MaxIterations
  /\ d \in outDirs
  /\ outDirs' = outDirs \ {d}
  /\ mutantFiles' = {p \in mutantFiles : p.dir # d}
  /\ UNCHANGED <<runVars, callVars, isForgeProject, answers>>
  /\ UNCHANGED <<proc, pc, genIdx, allMutants, queue, results, prevResults, iteration, pass, cur,
                 evalCount, source, backup, listeners, handlers, restoreErr, faults,
                 signals>>

(***************************************************************************)
(* Spec: the passes of one run in which no signal is delivered.            *)
(***************************************************************************)
Next ==
  \/ GenerateForFile
  \/ Backup
  \/ Substitute
  \/ RunTests
  \/ RestoreCopy
  \/ RestoreUnlink
  \/ RetestBegin
  \/ RetestFindDirs
  \/ RetestAccess
  \/ \E d \in {OutDir(f) : f \in Files} \cup {SimpleOutDir(f) : f \in Files} : RemoveOutputDir(d)

Spec == Init /\ [][Next]_vars

(***************************************************************************)
(* SpecInterrupt: the evaluation loop of the first pass under SIGINT and   *)
(* SIGTERM.  It starts where the generation loop has given every source    *)
(* file MaxMutants mutants and the first testSingleMutant call was made.   *)
(***************************************************************************)
RECURSIVE Generated(_)
Generated(i) ==
  IF i > Len(sourceFiles) THEN <<>>
  ELSE [k \in 1..MaxMutants |-> Mutant(sourceFiles[i], OutDir(sourceFiles[i]), k)]
       \o Generated(i + 1)

InitInterrupt ==
  /\ proc = "running"
  /\ pc = "backup"
  /\ genIdx = Len(sourceFiles) + 1
  /\ allMutants = Generated(1)
  /\ queue = Tail(allMutants)
  /\ results = <<>>
  /\ prevResults = <<>>
  /\ iteration = 1
  /\ pass = "full"
  /\ evalCount = 1
  /\ cur = [n |-> 1, file |-> allMutants[1].file, dir |-> allMutants[1].dir,
            id |-> allMutants[1].id, start |-> Original(allMutants[1].file),
            status |-> "none", run |-> "none", sig |-> FALSE,
            testCommand |-> "", failed |-> ""]
  /\ source = [f \in Files |-> Original(f)]
  /\ backup = [f \in Files |-> Absent]
  /\ mutantFiles = {MutantPath(allMutants[i].dir, allMutants[i].id, allMutants[i].file) :
                      i \in 1..Len(allMutants)}
  /\ outDirs = {OutDir(f) : f \in Files}
  /\ listeners = [s \in Signals |-> {Listener(1, allMutants[1].file)}]
  /\ handlers = {}
  /\ restoreErr = {}
  /\ faults = 0
  /\ signals = 0
  /\ AtMutationStep
  /\ NoCall
  /\ isForgeProject \in BOOLEAN
  /\ answers = <<>>

NextInterrupt ==
  \/ Backup
  \/ Substitute
  \/ RunTests
  \/ RestoreCopy
  \/ RestoreUnlink
  \/ \E sig \in Signals : Signal(sig)
  \/ \E h \in handlers : HandlerCopy(h)
  \/ \E h \in handlers : HandlerUnlink(h)
  \/ \E h \in handlers : HandlerExit(h)

SpecInterrupt == InitInterrupt /\ [][NextInterrupt]_vars

(***************************************************************************)
(* SpecRun: one command, from its first step to the end of its finally     *)
(* block.  The passes are one step here, which returns a result list.      *)
(***************************************************************************)
MaxResults == 2      \* results the passes of one run return

\* The statuses testSingleMutant returns.
PassStatuses == {"killed", "survived", "error"}

\* What runMutationTestingWithoutSetup can return: it throws when no mutant
\* was generated, so the list is never empty.
PassResults ==
  UNION {[1..n -> [file : Files, status : PassStatuses]] : n \in 1..MaxResults}

\* summary.basicMutationScore as the report prints it, toFixed(1), in tenths
\* of a percent.
basicMutationScore(res) ==
  IF Len(res) > 0 THEN (Count(res, "killed") * 2000 + Len(res)) \div (2 * Len(res)) ELSE 0

\* The texts of the service when no API key was given.
SkippingGapAnalysis == "Skipping gap analysis (no OpenAI API key provided)"
SkippingTestGeneration == "Skipping test generation (no OpenAI API key provided)"
SkippingSummaryGeneration == "Skipping summary generation (no OpenAI API key provided)"
SkippedSummary == "Skipped summary generation due to missing API key."
\* response.choices[0].message.content of generateSummary
ModelSummary == "summary report written by the model"

\* A service that takes every run to have a key.
hasApiKeyAlways == TRUE

\* hasApiKey of AIService.
hasApiKey == options.openaiKey

\* The command line gives exactly one of repository.url and repository.local_path.
InitRun ==
  /\ proc = "running"
  /\ pc = "idle"
  /\ genIdx = 1
  /\ allMutants = <<>>
  /\ queue = <<>>
  /\ results = <<>>
  /\ prevResults = <<>>
  /\ iteration = 1
  /\ pass = "full"
  /\ cur = NoEval
  /\ evalCount = 0
  /\ source = [f \in Files |-> Original(f)]
  /\ backup = [f \in Files |-> Absent]
  /\ mutantFiles = {}
  /\ outDirs = {}
  /\ listeners = [s \in Signals |-> {}]
  /\ handlers = {}
  /\ restoreErr = {}
  /\ faults = 0
  /\ signals = 0
  /\ command \in {"run", "coverage"}
  /\ options \in {o \in [repo : BOOLEAN, localPath : BOOLEAN, cleanup : BOOLEAN,
                        openaiKey : BOOLEAN, token : BOOLEAN, verbose : BOOLEAN] :
                     o.repo # o.localPath}
  /\ rpc = IF command = "run" THEN "cli" ELSE "start"
  /\ repoPath = NoPath
  /\ isLocalMode = FALSE
  /\ dirs \in SUBSET {LocalPath, ClonePath, OutputPath}
  /\ removed = {}
  /\ mutationResults = <<>>
  /\ apiRequests = 0
  /\ generatedTests = {}
  /\ summary = ""
  /\ console = {}
  /\ report = NoReport
  /\ outcome = "running"
  /\ exposed = {}
  /\ NoCall
  /\ isForgeProject = TRUE
  /\ answers = <<>>

\* The secrets the configuration gives: RunOptions.token and RunOptions.openaiKey.
Secrets == {k \in {"token", "openaiKey"} : options[k]}

\* The action of the command line: with --verbose it prints
\* JSON.stringify(runOptions), then it calls runMutationTest.
action ==
  /\ rpc = "cli"
  /\ rpc' = "start"
  /\ exposed' = IF options.verbose
                THEN exposed \cup {[to |-> "console", secret |-> k] : k \in Secrets}
                ELSE exposed
  /\ UNCHANGED <<command, options, repoPath, isLocalMode, dirs, removed, mutationResults,
                 apiRequests, generatedTests, summary, console, report, outcome>>
  /\ UNCHANGED <<passVars, callVars, isForgeProject, answers>>

\* return or throw inside the try block: the finally block runs next.
Leave(o) ==
  /\ outcome' = o
  /\ rpc' = "finally"

\* Step 1 of runCoverageAnalysis with options.localPath.
UseLocalPath ==
  /\ rpc = "start"
  /\ command = "coverage"
  /\ options.localPath
  /\ repoPath' = LocalPath
  /\ isLocalMode' = TRUE
  /\ IF LocalPath \in dirs
     THEN rpc' = "setup" /\ UNCHANGED outcome
     ELSE Leave("failed")
  /\ UNCHANGED <<exposed, command, options, dirs, removed, mutationResults, apiRequests,
                 generatedTests, summary, console, report>>
  /\ UNCHANGED <<passVars, callVars, isForgeProject, answers>>

\* Step 1 with a clone: runMutationTest always clones, runCoverageAnalysis
\* when options.localPath is not set.  Without a repository URL
\* path.basename(repoUrl, '.git') throws before anything is removed.
CloneRepository ==
  /\ rpc = "start"
  /\ command = "run" \/ ~options.localPath
  /\ IF ~options.repo
     THEN /\ Leave("failed")
          /\ UNCHANGED <<repoPath, dirs, removed>>
     ELSE /\ removed' = IF ClonePath \in dirs THEN removed \cup {ClonePath} ELSE removed
          /\ \E cloned \in BOOLEAN :
               IF cloned
               THEN /\ repoPath' = ClonePath
                    /\ dirs' = dirs \cup {ClonePath}
                    /\ rpc' = "setup"
                    /\ UNCHANGED outcome
               ELSE /\ Leave("failed")
                    /\ dirs' = dirs \ {ClonePath}
                    /\ UNCHANGED repoPath
  /\ UNCHANGED <<exposed, command, options, isLocalMode, mutationResults, apiRequests,
                 generatedTests, summary, console, report>>
  /\ UNCHANGED <<passVars, callVars, isForgeProject, answers>>

\* What the human may type at the prompt: yes, Y, " Yes ", no, nothing, yeah.
Answers ==
  {<<"y", "e", "s">>, <<"Y">>, <<" ", "Y", "e", "s", " ">>, <<"n", "o">>, <<>>,
   <<"y", "e", "a", "h">>}

\* Every answer counting as a confirmation.
waitForUserConfirmationAny(answer) == TRUE

\* normalizedAnswer === 'yes' || normalizedAnswer === 'y'
waitForUserConfirmation(answer) ==
  LET normalizedAnswer == trim(toLowerCase(answer))
  IN  normalizedAnswer = <<"y", "e", "s">> \/ normalizedAnswer = <<"y">>

\* Step 2: the setup instructions and waitForUserConfirmation.  A local
\* project that isProjectSetup finds built is not asked about.
ConfirmSetup ==
  /\ rpc = "setup"
  /\ \E isSetup \in BOOLEAN, answer \in Answers :
       LET needsSetup == command = "run" \/ ~isLocalMode \/ ~isSetup
           isReady == waitForUserConfirmation(answer)
       IN  /\ answers' = IF needsSetup THEN <<answer>> ELSE answers
           /\ IF needsSetup /\ ~isReady
              THEN Leave("cancelled")
              ELSE /\ rpc' = IF command = "run" THEN "mutation" ELSE "coverage"
                   /\ UNCHANGED outcome
  /\ UNCHANGED <<exposed, command, options, repoPath, isLocalMode, dirs, removed, mutationResults,
                 apiRequests, generatedTests, summary, console, report>>
  /\ UNCHANGED <<passVars, callVars, isForgeProject>>

\* Steps 3 and 4 of runMutationTest: the passes, then generateMutationAnalysis.
RunMutationTesting ==
  /\ rpc = "mutation"
  /\ pc = "idle"
  /\ \/ /\ Leave("failed")
        /\ UNCHANGED <<mutationResults, report>>
     \/ \E res \in PassResults :
          /\ mutationResults' = res
          /\ report' = [built |-> TRUE, saved |-> FALSE,
                        basicMutationScore |-> basicMutationScore(res)]
          /\ rpc' = IF Count(res, "survived") = 0 THEN "perfect" ELSE "gaps"
          /\ UNCHANGED outcome
  /\ UNCHANGED <<exposed, command, options, repoPath, isLocalMode, dirs, removed, apiRequests,
                 generatedTests, summary, console>>
  /\ UNCHANGED <<passVars, callVars, isForgeProject, answers>>

\* fs.writeFile of saveMutationAnalysis creates no directory.
SaveMutationAnalysis ==
  IF OutputPath \in dirs
  THEN report' = [report EXCEPT !.saved = TRUE]
  ELSE UNCHANGED report

\* The branch analysis.summary.survivedMutants === 0.
SavePerfect ==
  /\ rpc = "perfect"
  /\ SaveMutationAnalysis
  /\ Leave(IF OutputPath \in dirs THEN "done" ELSE "failed")
  /\ UNCHANGED <<exposed, command, options, repoPath, isLocalMode, dirs, removed, mutationResults,
                 apiRequests, generatedTests, summary, console>>
  /\ UNCHANGED <<passVars, callVars, isForgeProject, answers>>

\* The files of the survived results: the keys of mutationsByFile.
SurvivedFiles(res) == {res[i].file : i \in {j \in 1..Len(res) : res[j].status = "survived"}}

\* Step 5: analyzeGaps, then generateTests with one request per file.
GenerateTests ==
  /\ rpc = "gaps"
  /\ IF ~hasApiKey
     THEN /\ console' = console \cup {SkippingGapAnalysis, SkippingTestGeneration}
          /\ generatedTests' = {}
          /\ rpc' = "save"
          /\ UNCHANGED <<apiRequests, outcome>>
     ELSE /\ UNCHANGED console
          /\ \/ /\ apiRequests' = apiRequests + Cardinality(SurvivedFiles(mutationResults))
                /\ generatedTests' = SurvivedFiles(mutationResults)
                /\ rpc' = "save"
                /\ UNCHANGED outcome
             \/ \E sent \in 0..Cardinality(SurvivedFiles(mutationResults)) :
                  /\ apiRequests' = apiRequests + sent
                  /\ Leave("failed")
                  /\ UNCHANGED generatedTests
  /\ UNCHANGED <<exposed, command, options, repoPath, isLocalMode, dirs, removed, mutationResults,
                 summary, report>>
  /\ UNCHANGED <<passVars, callVars, isForgeProject, answers>>

\* Steps 6 and 7: saveGeneratedTests makes the output directory, then
\* saveMutationAnalysis writes the report into it.
SaveResults ==
  /\ rpc = "save"
  /\ dirs' = dirs \cup {OutputPath}
  /\ report' = [report EXCEPT !.saved = TRUE]
  /\ rpc' = "summary"
  /\ UNCHANGED <<exposed, command, options, repoPath, isLocalMode, removed, mutationResults,
                 apiRequests, generatedTests, summary, console, outcome>>
  /\ UNCHANGED <<passVars, callVars, isForgeProject, answers>>

\* Step 8: generateSummary and saveSummary.
GenerateSummary ==
  /\ rpc = "summary"
  /\ IF ~hasApiKey
     THEN /\ console' = console \cup {SkippingSummaryGeneration}
          /\ summary' = SkippedSummary
          /\ Leave("done")
          /\ UNCHANGED apiRequests
     ELSE /\ apiRequests' = apiRequests + 1
          /\ UNCHANGED console
          /\ \/ summary' = ModelSummary /\ Leave("done")
             \/ UNCHANGED summary /\ Leave("failed")
  /\ UNCHANGED <<exposed, command, options, repoPath, isLocalMode, dirs, removed, mutationResults,
                 generatedTests, report>>
  /\ UNCHANGED <<passVars, callVars, isForgeProject, answers>>

\* Steps 3 to 6 of runCoverageAnalysis: the coverage meets the target, or
\* tests and a summary are generated and saved, or a step throws.
AnalyzeCoverage ==
  /\ rpc = "coverage"
  /\ \/ Leave("done") /\ UNCHANGED <<dirs, apiRequests>>
     \/ Leave("failed") /\ UNCHANGED <<dirs, apiRequests>>
     \/ /\ Leave("done")
        /\ dirs' = dirs \cup {OutputPath}
        /\ apiRequests' = apiRequests + 1
  /\ UNCHANGED <<exposed, command, options, repoPath, isLocalMode, removed, mutationResults,
                 generatedTests, summary, console, report>>
  /\ UNCHANGED <<passVars, callVars, isForgeProject, answers>>

\* The condition of runCoverageAnalysis's finally block without its
\* isLocalMode conjunct.
CleansUpAnyPath == repoPath # NoPath /\ options.cleanup

\* The conditions of the finally blocks.
CleansUp ==
  IF command = "coverage"
  THEN repoPath # NoPath /\ ~isLocalMode /\ options.cleanup
  ELSE repoPath # NoPath /\ options.cleanup

\* GitService.cleanup: fs.rm(repoPath, { recursive: true, force: true }).
Cleanup(path) ==
  /\ removed' = removed \cup {path}
  /\ dirs' = dirs \ {path}

\* The finally block of the command.
Finally ==
  /\ rpc = "finally"
  /\ rpc' = "end"
  /\ IF CleansUp THEN Cleanup(repoPath) ELSE UNCHANGED <<removed, dirs>>
  /\ UNCHANGED <<exposed, command, options, repoPath, isLocalMode, mutationResults, apiRequests,
                 generatedTests, summary, console, report, outcome>>
  /\ UNCHANGED <<passVars, callVars, isForgeProject, answers>>

NextRun ==
  \/ action
  \/ UseLocalPath
  \/ CloneRepository
  \/ ConfirmSetup
  \/ RunMutationTesting
  \/ SavePerfect
  \/ GenerateTests
  \/ SaveResults
  \/ GenerateSummary
  \/ AnalyzeCoverage
  \/ Finally

SpecRun == InitRun /\ [][NextRun]_vars

(***************************************************************************)
(* Claims about the evaluator and the passes.                              *)
(***************************************************************************)
\* The step ends the evaluation in flight: testSingleMutant returns, or the
\* process ends within it.
EvalReturns == cur.n > 0 /\ cur'.n # cur.n

EvalEnds == cur.n > 0 /\ (cur'.n # cur.n \/ proc' # "running")

\* The result the caller pushes when testSingleMutant returns.
Pushed == results'[Len(results) + 1]

\* C1: whenever a single-mutant evaluation ends, by returning or by the process
\* ending, the source file holds the content it had when the evaluation began,
\* unless a restore step of that evaluation reported an error.
C1_SourceRestoredUnlessReported ==
  [][EvalEnds => (source'[cur.file] = cur.start \/ cur.n \in restoreErr')]_vars

\* C2: if a signal was delivered while the source file of the evaluation in
\* flight held the mutant, the process has not ended unless that file holds
\* again the content saved in its backup.
C2_NoExitBeforeRestore ==
  (proc \in {"exited", "killed"} /\ cur.sig) => source[cur.file] = cur.start

\* C3: at no time do two source files hold a mutant, and whenever an
\* evaluation starts, every source file holds its original content and no
\* .backup file exists.
C3_SequentialOwnership ==
  [][/\ Cardinality({f \in Files : source'[f].kind = "mutant"}) <= 1
     /\ evalCount' > evalCount =>
          \A f \in Files : source'[f] = Original(f) /\ backup'[f] = Absent]_vars

\* C4: the result of an evaluation is killed iff the test command exited with
\* a non-zero code while the mutant was substituted, and survived iff it
\* exited with code zero.
C4_KilledIffNonZeroExit ==
  [][EvalReturns =>
       /\ Pushed.status \in {"killed", "survived", "error", "timeout"}
       /\ Pushed.status = "killed" <=> cur.run = "exitN"
       /\ Pushed.status = "survived" <=> cur.run = "exit0"]_vars

\* C5: when the test command exceeded its deadline, the result's status is
\* timeout.
C5_TimeoutStatus ==
  [][(EvalReturns /\ cur.run = "timeout") => Pushed.status = "timeout"]_vars

\* C7: a retest pass that carries the killed results forward returns at least
\* as many killed and at most as many survived results as the previous pass.
C7_RetestMonotone ==
  (pc = "done" /\ pass = "retest") =>
     /\ Count(results, "killed") >= Count(prevResults, "killed")
     /\ Count(results, "survived") <= Count(prevResults, "survived")

\* A retest pass has carried a killed result forward and killed a former survivor.
C7_Witness ==
  /\ pc = "done"
  /\ pass = "retest"
  /\ Count(prevResults, "killed") >= 1
  /\ Count(results, "killed") > Count(prevResults, "killed")
  /\ Count(results, "survived") < Count(prevResults, "survived")

\* C10: a source file whose generation failed or gave no mutant is skipped:
\* the generation loop goes through every file, it throws only when no file
\* gave a mutant, the descriptors of every output directory the generator
\* filled are in allMutants, and the full pass returns one result per
\* descriptor, in order.
C10_FileSkippedRunContinues ==
  /\ proc = "threw" => (genIdx = Len(sourceFiles) + 1 /\ allMutants = <<>>)
  /\ iteration = 1 =>
       \A d \in outDirs : \E i \in 1..Len(allMutants) : allMutants[i].dir = d
  /\ (pc = "done" /\ pass = "full") =>
       /\ Len(results) = Len(allMutants)
       /\ \A i \in 1..Len(results) :
            /\ results[i].file = allMutants[i].file
            /\ results[i].mutantId = allMutants[i].id
            /\ results[i].outputDir = allMutants[i].dir

\* The first file gave no mutant and the mutants of a later file were evaluated.
C10_Witness ==
  /\ pc = "done"
  /\ pass = "full"
  /\ iteration = 1
  /\ results # <<>>
  /\ \A i \in 1..Len(allMutants) : allMutants[i].file # sourceFiles[1]

(***************************************************************************)
(* Claims about the commands.                                              *)
(***************************************************************************)
\* A run of the command "run" whose passes returned, after its finally block.
RunEnded == command = "run" /\ rpc = "end" /\ report.built

\* C6: the caller-supplied local path is never handed to the recursive
\* removal, whichever way the command ends; only the provider's clone is.
C6_LocalPathNeverRemoved ==
  /\ removed \subseteq {ClonePath}
  /\ (isLocalMode /\ rpc \in {"finally", "end"}) => LocalPath \in dirs \/ outcome = "failed"

\* A coverage run on a local path, with cleanup enabled, ended successfully
\* and the local path is still there.
C6_Witness ==
  /\ command = "coverage"
  /\ rpc = "end"
  /\ isLocalMode
  /\ repoPath = LocalPath
  /\ options.cleanup
  /\ outcome = "done"
  /\ LocalPath \in dirs

\* C8: a run whose passes return no survived result ends successfully without
\* a request to the text-generation API, and the saved report states a basic
\* score of 100.0%.
C8_ZeroSurvivorsDone ==
  (RunEnded /\ Count(mutationResults, "survived") = 0) =>
     /\ outcome = "done"
     /\ apiRequests = 0
     /\ report.saved
     /\ report.basicMutationScore = 1000

\* What a text of the service reports as skipped.
Skipped(text) ==
  IF text = SkippingGapAnalysis THEN "gap analysis"
  ELSE IF text = SkippingTestGeneration THEN "test generation"
  ELSE IF text \in {SkippingSummaryGeneration, SkippedSummary} THEN "summary generation"
  ELSE "nothing"

\* Requests are sent only with a key and a survived result; without a key and
\* with a survived result the run ends successfully, sends no request and
\* generates no test.
C9_NoKeyNoRequest ==
  /\ (command = "run" /\ apiRequests > 0) =>
       (options.openaiKey /\ Count(mutationResults, "survived") > 0)
  /\ (RunEnded /\ ~options.openaiKey /\ Count(mutationResults, "survived") > 0) =>
       /\ outcome = "done"
       /\ apiRequests = 0
       /\ generatedTests = {}

\* C9 as stated: test generation is entered only with a key and a survived
\* result; without a key the run completes with no request and no generated
\* test, and the summary notes that test generation was skipped.
C9_SummaryNotesTestGenerationSkipped ==
  /\ C9_NoKeyNoRequest
  /\ (RunEnded /\ ~options.openaiKey /\ Count(mutationResults, "survived") > 0) =>
       Skipped(summary) = "test generation"

\* C9 amended: as stated, except that it is the console that notes that test
\* generation was skipped; the summary notes that summary generation was.
C9_ConsoleNotesTestGenerationSkipped ==
  /\ C9_NoKeyNoRequest
  /\ (RunEnded /\ ~options.openaiKey /\ Count(mutationResults, "survived") > 0) =>
       /\ \E text \in console : Skipped(text) = "test generation"
       /\ Skipped(summary) = "summary generation"

\* A run without a key whose passes returned a survived result has ended.
C9_Witness ==
  /\ RunEnded
  /\ ~options.openaiKey
  /\ Count(mutationResults, "survived") > 0
  /\ outcome = "done"
  /\ summary = SkippedSummary

(***************************************************************************)
(* Claims about text generation, secrets and the source filter.            *)
(***************************************************************************)
\* C11: a failure of text generation for one file does not abort the run:
\* step 5 of a run with a key always hands its tests on to the saving steps.
C11_GenerationFailureSkipsFile ==
  [][(rpc = "gaps" /\ hasApiKey) => (rpc' = "save" /\ outcome' = "running")]_vars

\* C12: no secret of the configuration is ever written to the console, to a
\* log, to a config file or to a saved artifact.
C12_SecretsNeverWritten == exposed = {}

(***************************************************************************)
(* SpecFilter: the source file filter of runMutationTestingWithoutSetup,   *)
(* applied to the paths glob.sync returns.  A path is the sequence of its  *)
(* characters.                                                             *)
(***************************************************************************)
MaxFiles == 2        \* paths glob.sync returns

\* The services at rest: no pass and no command is running.
AtRest ==
  /\ proc = "running"
  /\ pc = "idle"
  /\ genIdx = 1
  /\ allMutants = <<>>
  /\ queue = <<>>
  /\ results = <<>>
  /\ prevResults = <<>>
  /\ iteration = 1
  /\ pass = "full"
  /\ cur = NoEval
  /\ evalCount = 0
  /\ source = [f \in Files |-> Original(f)]
  /\ backup = [f \in Files |-> Absent]
  /\ mutantFiles = {}
  /\ outDirs = {}
  /\ listeners = [s \in Signals |-> {}]
  /\ handlers = {}
  /\ restoreErr = {}
  /\ faults = 0
  /\ signals = 0
  /\ command = "run"
  /\ options = [repo |-> TRUE, localPath |-> FALSE, cleanup |-> TRUE, openaiKey |-> FALSE,
                token |-> FALSE, verbose |-> FALSE]
  /\ rpc = "mutation"
  /\ repoPath = ClonePath
  /\ isLocalMode = FALSE
  /\ dirs = {ClonePath}
  /\ removed = {}
  /\ mutationResults = <<>>
  /\ apiRequests = 0
  /\ generatedTests = {}
  /\ summary = ""
  /\ console = {}
  /\ report = NoReport
  /\ outcome = "running"
  /\ exposed = {}
  /\ isForgeProject = TRUE
  /\ answers = <<>>

\* The literals of the filter.
Pattern ==
  [test_dir |-> <<"/", "t", "e", "s", "t", "/">>,
   tests_dir |-> <<"/", "t", "e", "s", "t", "s", "/">>,
   test_sol |-> <<".", "t", "e", "s", "t", ".", "s", "o", "l">>,
   t_sol |-> <<".", "t", ".", "s", "o", "l">>,
   Test |-> <<"T", "e", "s", "t">>,
   Test_sol |-> <<"T", "e", "s", "t", ".", "s", "o", "l">>,
   mock |-> <<"m", "o", "c", "k">>,
   Mock |-> <<"M", "o", "c", "k">>]

\* What glob.sync(`${sourceRoot}/**/*.sol`) can return for one file.
SolPaths ==
  LET SubDirs ==
        {<<>>,
        <<"/", "t", "e", "s", "t">>,
        <<"/", "t", "e", "s", "t", "s">>,
        <<"/", "T", "e", "s", "t">>,
        <<"/", "T", "E", "S", "T", "S">>,
        <<"/", "m", "o", "c", "k", "s">>,
        <<"/", "M", "O", "C", "K">>,
        <<"/", "l", "i", "b">>}
      FileNames ==
        {<<"A">>,
        <<"T", "e", "s", "t">>,
        <<"T", "e", "s", "t", "A">>,
        <<"A", "T", "e", "s", "t">>,
        <<"M", "o", "c", "k">>,
        <<"a", "M", "O", "C", "K", "b">>,
        <<"T", "o", "k", "e", "n">>,
        <<"A", ".", "t">>,
        <<"A", ".", "t", "e", "s", "t">>,
        <<"A", ".", "T">>}
  IN  {<<"s", "r", "c">> \o d \o <<"/">> \o n \o <<".", "s", "o", "l">> :
         d \in SubDirs, n \in FileNames}

\* The filter with filePath = file, not lowered.
isExcludedAsWritten(file) ==
  LET fileName == basename(file)
      filePath == file
  IN  \/ includes(filePath, Pattern.test_dir)
      \/ includes(filePath, Pattern.tests_dir)
      \/ endsWith(fileName, Pattern.test_sol)
      \/ endsWith(fileName, Pattern.t_sol)
      \/ startsWith(fileName, Pattern.Test)
      \/ endsWith(fileName, Pattern.Test_sol)
      \/ includes(filePath, Pattern.mock)
      \/ includes(filePath, Pattern.Mock)

\* The condition negated by the callback of allSolFiles.filter.
isExcluded(file) ==
  LET fileName == basename(file)
      filePath == toLowerCase(file)
  IN  \/ includes(filePath, Pattern.test_dir)
      \/ includes(filePath, Pattern.tests_dir)
      \/ endsWith(fileName, Pattern.test_sol)
      \/ endsWith(fileName, Pattern.t_sol)
      \/ startsWith(fileName, Pattern.Test)
      \/ endsWith(fileName, Pattern.Test_sol)
      \/ includes(filePath, Pattern.mock)
      \/ includes(filePath, Pattern.Mock)

\* allSolFiles.filter(...)
RECURSIVE filterSourceFiles(_)
filterSourceFiles(allSolFiles) ==
  IF allSolFiles = <<>> THEN <<>>
  ELSE IF isExcluded(Head(allSolFiles)) THEN filterSourceFiles(Tail(allSolFiles))
  ELSE <<Head(allSolFiles)>> \o filterSourceFiles(Tail(allSolFiles))

InitFilter ==
  /\ AtRest
  /\ called = ""
  /\ args \in UNION {[1..n -> SolPaths] : n \in 1..MaxFiles}
  /\ returned = <<>>
  /\ now = 0

FilterSourceFiles ==
  /\ called = ""
  /\ called' = "filter"
  /\ returned' = filterSourceFiles(args)
  /\ UNCHANGED <<args, now, passVars, runVars, isForgeProject, answers>>

SpecFilter == InitFilter /\ [][FilterSourceFiles]_vars

\* The elements of a sequence.
Range(seq) == {seq[i] : i \in 1..Len(seq)}

\* The exclusion heuristic as the claim words it.
MatchedAsStated(file) ==
  \/ includes(file, Pattern.test_dir)
  \/ includes(file, Pattern.tests_dir)
  \/ endsWith(basename(file), Pattern.test_sol)
  \/ endsWith(basename(file), Pattern.t_sol)
  \/ startsWith(basename(file), Pattern.Test)
  \/ endsWith(basename(file), Pattern.Test_sol)
  \/ includes(file, Pattern.mock)
  \/ includes(file, Pattern.Mock)

\* The heuristic with the path compared in lower case.
MatchedIgnoringCase(file) ==
  \/ MatchedAsStated(file)
  \/ includes(toLowerCase(file), Pattern.test_dir)
  \/ includes(toLowerCase(file), Pattern.tests_dir)
  \/ includes(toLowerCase(file), Pattern.mock)

C14_ProjectTestCommand ==
  cur.run # "none" =>
    cur.testCommand = IF isForgeProject THEN "forge test" ELSE "npx hardhat test"

\* The answers that say yes: yes or y, in any letter case, blanks around ignored.
SaysYes(answer) ==
  answer \in {<<"y", "e", "s">>, <<"Y">>, <<" ", "Y", "e", "s", " ">>}

\* C15: when the human answers the confirmation with anything but yes, the
\* run is cancelled, not failed, and nothing of the passes or of the later
\* steps has happened or happens afterwards.
C15_NotYesCancels ==
  (answers # <<>> /\ ~SaysYes(answers[1])) =>
     /\ outcome = "cancelled"
     /\ rpc \in {"finally", "end"}
     /\ mutationResults = <<>>
     /\ ~report.built
     /\ apiRequests = 0
     /\ generatedTests = {}
     /\ evalCount = 0
     /\ allMutants = <<>>

\* The human typed no and the command has ended.
C15_Witness ==
  /\ command = "run"
  /\ answers = <<(<<"n", "o">>)>>
  /\ rpc = "end"
  /\ outcome = "cancelled"

(***************************************************************************)
(* SpecScore: generateMutationAnalysis applied to a result list, twice,    *)
(* while the clock advances.  Scores are exact: a score is kept as a       *)
(* numerator over a denominator until Math.round makes it a whole number   *)
(* of hundredths.                                                          *)
(***************************************************************************)
MaxScored == 3       \* results in the list that is scored
MaxClock == 1        \* seconds the clock advances

\* An original snippet that holds none of the words calculateMutantPriority
\* looks for.
S_x == <<"x">>

\* The results given to the analysis, with mutation types of severity 5, of
\* severity 3, and one the severity map does not hold.
ScoredResults ==
  UNION {[1..n -> [file : Files, status : PassStatuses, mutationType : {"require-mutation", "binary-op-mutation", "other-mutation"},
                   original : {S_x}]] :
           n \in 1..MaxScored}

\* A severity that is the default for every type.
getMutationSeverityDefault(mutationType) == 2

getMutationSeverity(mutationType) ==
  CASE mutationType = "require-mutation" -> 5
    [] mutationType = "assignment-mutation" -> 4
    [] mutationType = "binary-op-mutation" -> 3
    [] mutationType = "unary-operator-mutation" -> 3
    [] mutationType = "swap-arguments-operator-mutation" -> 4
    [] mutationType = "delete-expression-mutation" -> 3
    [] mutationType = "elim-delegate-mutation" -> 5
    [] mutationType = "if-cond-mutation" -> 4
    [] OTHER -> 2

\* severityPenalty: severity * 2 for every survived result.
RECURSIVE severityPenalty(_)
severityPenalty(survived) ==
  IF survived = <<>> THEN 0
  ELSE getMutationSeverity(Head(survived).mutationType) * 2 + severityPenalty(Tail(survived))

\* new Set(results.map(m => m.file))
FilesOf(res) == {res[i].file : i \in 1..Len(res)}

\* A score left as it is computed.
unclamped(num, den) == num

\* Math.max(0, Math.min(100, guardianScore)), for the score num/den.
clamp(num, den) ==
  IF num < 0 THEN 0 ELSE IF num > 100 * den THEN 100 * den ELSE num

\* Math.round(guardianScore * 100), for the score num/den: hundredths.
roundHundredths(num, den) == (200 * num + den) \div (2 * den)

\* A bonus of 90 points for survivors spread over every file.
distributionBonusHeavy(filesWithSurvivedMutants, totalFiles, totalMutants) ==
  IF totalFiles > 1 THEN filesWithSurvivedMutants * 90 * totalMutants ELSE 0

\* totalFiles > 1 ? (filesWithSurvivedMutants / totalFiles) * 5 : 0, over the
\* denominator totalMutants * totalFiles
distributionBonus(filesWithSurvivedMutants, totalFiles, totalMutants) ==
  IF totalFiles > 1 THEN filesWithSurvivedMutants * 5 * totalMutants ELSE 0

\* calculateGuardianScore, in hundredths.
calculateGuardianScore(res) ==
  IF Len(res) = 0 THEN 0
  ELSE LET totalMutants == Len(res)
           killedMutants == Count(res, "killed")
           survivedMutants == Filter(res, "survived")
           filesWithSurvivedMutants == Cardinality(FilesOf(survivedMutants))
           totalFiles == Cardinality(FilesOf(res))
           den == totalMutants * totalFiles
           baseScore == 100 * killedMutants * totalFiles
           penalty == severityPenalty(survivedMutants) * den
           bonus == distributionBonus(filesWithSurvivedMutants, totalFiles, totalMutants)
       IN  roundHundredths(clamp(baseScore - penalty + bonus, den), den)

\* The counters analyzeByFile and analyzeByMutationType keep for one key.
Stats(res) ==
  [total |-> Len(res), killed |-> Count(res, "killed"), survived |-> Count(res, "survived")]

RECURSIVE WithFile(_, _)
WithFile(res, f) ==
  IF res = <<>> THEN <<>>
  ELSE IF Head(res).file = f THEN <<Head(res)>> \o WithFile(Tail(res), f)
  ELSE WithFile(Tail(res), f)

RECURSIVE WithType(_, _)
WithType(res, t) ==
  IF res = <<>> THEN <<>>
  ELSE IF Head(res).mutationType = t THEN <<Head(res)>> \o WithType(Tail(res), t)
  ELSE WithType(Tail(res), t)

analyzeByFile(res) == [f \in FilesOf(res) |-> Stats(WithFile(res, f))]

analyzeByMutationType(res) ==
  [t \in {res[i].mutationType : i \in 1..Len(res)} |->
     [stats |-> Stats(WithType(res, t)), severity |-> getMutationSeverity(t)]]

\* The words calculateMutantPriority looks for in the original snippet.
Keyword ==
  [require |-> <<"r", "e", "q", "u", "i", "r", "e">>,
   assert_ |-> <<"a", "s", "s", "e", "r", "t">>,
   transfer |-> <<"t", "r", "a", "n", "s", "f", "e", "r">>,
   send |-> <<"s", "e", "n", "d">>,
   owner |-> <<"o", "w", "n", "e", "r">>,
   admin |-> <<"a", "d", "m", "i", "n">>]

\* A priority that is the severity alone.
calculateMutantPriorityUnboosted(mutant) == getMutationSeverity(mutant.mutationType) * 10

calculateMutantPriority(mutant) ==
  getMutationSeverity(mutant.mutationType) * 10
  + (IF includes(mutant.original, Keyword.require) \/ includes(mutant.original, Keyword.assert_)
     THEN 20 ELSE 0)
  + (IF includes(mutant.original, Keyword.transfer) \/ includes(mutant.original, Keyword.send)
     THEN 15 ELSE 0)
  + (IF includes(mutant.original, Keyword.owner) \/ includes(mutant.original, Keyword.admin)
     THEN 10 ELSE 0)

\* {...mutant, severity, priority}
Gap(mutant) ==
  [file |-> mutant.file, status |-> mutant.status, mutationType |-> mutant.mutationType,
   original |-> mutant.original,
   severity |-> getMutationSeverity(mutant.mutationType),
   priority |-> calculateMutantPriority(mutant)]

\* Array.prototype.sort by descending priority, which is stable.
RECURSIVE insertByPriority(_, _)
insertByPriority(gap, sorted) ==
  IF sorted = <<>> THEN <<gap>>
  ELSE IF Head(sorted).priority >= gap.priority
       THEN <<Head(sorted)>> \o insertByPriority(gap, Tail(sorted))
       ELSE <<gap>> \o sorted

RECURSIVE sortByPriority(_, _)
sortByPriority(todo, sorted) ==
  IF todo = <<>> THEN sorted
  ELSE sortByPriority(Tail(todo), insertByPriority(Head(todo), sorted))

\* Array.prototype.slice(0, n)
slice0(seq, n) == SubSeq(seq, 1, IF Len(seq) < n THEN Len(seq) ELSE n)

identifyCriticalGaps(res) ==
  LET survivedMutants == Filter(res, "survived")
  IN  slice0(sortByPriority([i \in 1..Len(survivedMutants) |-> Gap(survivedMutants[i])], <<>>),
             10)

\* The keys of an object, in the order they were first set.
RECURSIVE keysInOrder(_, _, _)
keysInOrder(res, seen, field) ==
  IF res = <<>> THEN <<>>
  ELSE IF Head(res)[field] \in seen THEN keysInOrder(Tail(res), seen, field)
  ELSE <<Head(res)[field]>> \o keysInOrder(Tail(res), seen \cup {Head(res)[field]}, field)

\* The comparator of a sort: by file score or by how problematic a type is.
Less(by, a, b) ==
  IF by = "score"
  THEN \* a.score - b.score < 0, the score being killed / total * 100
       a.killed * b.total < b.killed * a.total
  ELSE \* (a.score - a.severity * 5) - (b.score - b.severity * 5) < 0
       100 * a.killed * b.total - 5 * a.severity * a.total * b.total
         < 100 * b.killed * a.total - 5 * b.severity * a.total * b.total

\* Array.prototype.sort with a comparator (a, b) => key(a) - key(b): stable,
\* ascending.
RECURSIVE insertBy(_, _, _)
insertBy(e, sorted, by) ==
  IF sorted = <<>> THEN <<e>>
  ELSE IF Less(by, e, Head(sorted)) THEN <<e>> \o sorted
  ELSE <<Head(sorted)>> \o insertBy(e, Tail(sorted), by)

RECURSIVE sortBy(_, _, _)
sortBy(todo, sorted, by) ==
  IF todo = <<>> THEN sorted
  ELSE sortBy(Tail(todo), insertBy(Head(todo), sorted, by), by)

\* fileAnalysis.worstPerforming: sortedFiles.slice(0, 5)
worstPerforming(res) ==
  LET files == keysInOrder(res, {}, "file")
      entries == [i \in 1..Len(files) |->
                    [file |-> files[i],
                     total |-> Len(WithFile(res, files[i])),
                     killed |-> Count(WithFile(res, files[i]), "killed"),
                     survived |-> Count(WithFile(res, files[i]), "survived")]]
  IN  slice0(sortBy(entries, <<>>, "score"), 5)

\* typeAnalysis.mostProblematic: sortedTypes.slice(0, 3)
mostProblematic(res) ==
  LET types == keysInOrder(res, {}, "mutationType")
      entries == [i \in 1..Len(types) |->
                    [type |-> types[i],
                     total |-> Len(WithType(res, types[i])),
                     killed |-> Count(WithType(res, types[i]), "killed"),
                     survived |-> Count(WithType(res, types[i]), "survived"),
                     severity |-> getMutationSeverity(types[i])]]
  IN  slice0(sortBy(entries, <<>>, "problematic"), 3)

\* One recommendation: which line it is and the file or type it names.
Recommendation(line, about) == [line |-> line, about |-> about]

\* A closing remark for every score.
closingRemarkAlways(killed, total) ==
  <<Recommendation(IF killed * 100 < 50 * total THEN "Critical"
                   ELSE IF killed * 100 < 75 * total THEN "Moderate" ELSE "Good", "")>>

\* The general recommendation based on the score killed / total * 100.
closingRemark(killed, total) ==
  IF killed * 100 < 50 * total THEN <<Recommendation("Critical", "")>>
  ELSE IF killed * 100 < 75 * total THEN <<Recommendation("Moderate", "")>>
  ELSE IF killed * 100 < 90 * total THEN <<Recommendation("Good", "")>>
  ELSE <<>>

\* generateRecommendations: which recommendations are made, in order.
generateRecommendations(res) ==
  LET survivedMutants == Filter(res, "survived")
      has(t) == WithType(survivedMutants, t) # <<>>
      worst == worstPerforming(res)
      HasSurvivor(t) == t.survived > 0
      problematicTypes == SelectSeq(mostProblematic(res), HasSurvivor)
  IN  IF survivedMutants = <<>> THEN <<Recommendation("Excellent", "")>>
      ELSE (IF Len(worst) > 0
            THEN <<Recommendation("Focus on file", worst[1].file)>> ELSE <<>>)
           \o (IF Len(problematicTypes) > 0
               THEN <<Recommendation("mutations need attention", problematicTypes[1].type)>>
               ELSE <<>>)
           \o (IF has("require-mutation") \/ has("elim-delegate-mutation")
               THEN <<Recommendation("Security concern", "")>> ELSE <<>>)
           \o (IF has("binary-op-mutation") \/ has("unary-operator-mutation")
               THEN <<Recommendation("Logic testing", "")>> ELSE <<>>)
           \o (IF has("assignment-mutation")
               THEN <<Recommendation("State verification", "")>> ELSE <<>>)
           \o closingRemark(Count(res, "killed"), Len(res))

\* The analysis object of generateMutationAnalysis.
Analysis(res, score) ==
  [summary |-> [totalMutants |-> Len(res),
                killedMutants |-> Count(res, "killed"),
                survivedMutants |-> Count(res, "survived"),
                errorMutants |-> Count(res, "error"),
                basicMutationScore |-> basicMutationScore(res),
                guardianScore |-> score],
   byFile |-> analyzeByFile(res),
   byMutationType |-> analyzeByMutationType(res),
   criticalGaps |-> identifyCriticalGaps(res),
   recommendations |-> generateRecommendations(res)]

\* generateMutationReport: the text is made of the analysis and of
\* new Date().toLocaleString().
generateMutationReport(analysis, t) == [analysis |-> analysis, generatedAt |-> t]

\* An analysis whose guardian score moves with the clock.
generateMutationAnalysisDrifting(res, t) ==
  [guardianScore |-> calculateGuardianScore(res) + t,
   analysis |-> Analysis(res, calculateGuardianScore(res) + t),
   reportMarkdown |-> generateMutationReport(Analysis(res, calculateGuardianScore(res) + t), t)]

generateMutationAnalysis(res, t) ==
  [guardianScore |-> calculateGuardianScore(res),
   analysis |-> Analysis(res, calculateGuardianScore(res)),
   reportMarkdown |-> generateMutationReport(Analysis(res, calculateGuardianScore(res)), t)]

InitScore ==
  /\ AtRest
  /\ called = ""
  /\ args \in ScoredResults
  /\ returned = <<>>
  /\ now = 0

\* One call of generateMutationAnalysis on the same list.
GenerateMutationAnalysis ==
  /\ Len(returned) < 2
  /\ called' = "generateMutationAnalysis"
  /\ returned' = Append(returned, generateMutationAnalysis(args, now))
  /\ UNCHANGED <<args, now, passVars, runVars, isForgeProject, answers>>

\* Time passes.
Tick ==
  /\ now < MaxClock
  /\ now' = now + 1
  /\ UNCHANGED <<called, args, returned, passVars, runVars, isForgeProject, answers>>

NextScore ==
  \/ GenerateMutationAnalysis
  \/ Tick

SpecScore == InitScore /\ [][NextScore]_vars

(***************************************************************************)
(* Claims about the scores.                                                *)
(***************************************************************************)
\* The list scored has no survived result and the results of one file only.
NoSurvivorOneFile == Count(args, "survived") = 0 /\ Cardinality(FilesOf(args)) = 1

\* C16 as stated: the guardian score of a non-empty list is between 0 and 100,
\* and with no survivor and one file it equals killed / total * 100.
C16_GuardianEqualsBasic ==
  \A i \in 1..Len(returned) :
    /\ returned[i].guardianScore >= 0
    /\ returned[i].guardianScore <= 10000
    /\ NoSurvivorOneFile =>
         returned[i].guardianScore * Len(args) = 10000 * Count(args, "killed")

\* C16 amended: ... and with no survivor and one file it equals
\* killed / total * 100 rounded to two decimal places.
C16_GuardianEqualsRoundedBasic ==
  \A i \in 1..Len(returned) :
    /\ returned[i].guardianScore >= 0
    /\ returned[i].guardianScore <= 10000
    /\ NoSurvivorOneFile =>
         LET diff == returned[i].guardianScore * Len(args) - 10000 * Count(args, "killed")
         IN  2 * diff <= Len(args) /\ -2 * diff < Len(args)

\* A list of one file with a killed result, no survivor and a kill rate that
\* is not a whole number of hundredths has been scored.
C16_Witness ==
  /\ returned # <<>>
  /\ NoSurvivorOneFile
  /\ Count(args, "killed") = 1
  /\ Len(args) = 3
  /\ returned[1].guardianScore = 3333

C18_ErrorIffMachineryFailed ==
  [][EvalReturns =>
       (Pushed.status = "error" <=> (cur.failed # "" \/ cur.run = "spawnfail"))]_vars

\* C19: when the backup copy fails the result has status error and no step of
\* the evaluation writes the source file.
C19_BackupFailureLeavesSource ==
  [][(cur.n > 0 /\ cur.failed = "backup") =>
       /\ source' = source
       /\ EvalReturns => Pushed.status = "error"]_vars

\* The evaluation in flight found no mutant file to copy over the source.
MutantFileMissing == cur.n > 0 /\ cur.failed = "substitute: missing"

\* C20 as stated: when the mutant file is missing at substitution time, the
\* result has status error, no test command was run, the source file holds
\* what it held when the evaluation began, the restore ran, and the backup
\* file is gone when the evaluation returns.
C20_MissingMutantLeavesNoBackup ==
  [][(MutantFileMissing /\ EvalReturns) =>
       /\ Pushed.status = "error"
       /\ cur.run = "none"
       /\ source'[cur.file] = cur.start
       /\ pc \in {"rcopy", "runlink"}
       /\ backup'[cur.file] = Absent]_vars

\* C20 amended: the same, the backup file being gone only when neither call of
\* the restore (the copy back, the unlink) reported an error.
C20_MissingMutantLeavesNoBackupUnlessReported ==
  [][(MutantFileMissing /\ EvalReturns) =>
       /\ Pushed.status = "error"
       /\ cur.run = "none"
       /\ source'[cur.file] = cur.start
       /\ pc \in {"rcopy", "runlink"}
       /\ (cur.n \notin restoreErr' => backup'[cur.file] = Absent)]_vars

\* C20 witness: the mutant file was missing, no test was run, and the restore
\* has copied the backup over the source and is about to unlink it.
C20_Witness ==
  /\ MutantFileMissing
  /\ pc = "runlink"
  /\ cur.status = "error"
  /\ cur.run = "none"
  /\ backup[cur.file] # Absent
  /\ source[cur.file] = cur.start

(***************************************************************************)
(* Claims about listeners, the retest pass and the descriptors.            *)
(***************************************************************************)
\* C21: after an evaluation has returned no SIGINT or SIGTERM listener it
\* registered remains: every registered listener belongs to the evaluation in
\* flight, so at most one listener per signal is ever registered.
C21_ListenersDeregistered ==
  \A s \in Signals : \A l \in listeners[s] : cur.n > 0 /\ l.n = cur.n

\* C21 witness: a second evaluation is in flight, the first has returned, and
\* the only listeners registered are those of the second.
C21_Witness ==
  /\ cur.n = 2
  /\ Len(results) > 0
  /\ \A s \in Signals : listeners[s] = {Listener(2, cur.file)}

\* The mutant file of a previous survivor is no longer on disk.
FileGone(m) ==
  /\ m.mutantId # 0
  /\ m.outputDir # ""
  /\ MutantPath(m.outputDir, m.mutantId, m.file) \notin mutantFiles

\* C22 as stated: a retest that finds the mutant file of a previous survivor
\* gone falls back to a full pass.
C22_MissingFilesFallBack ==
  [][(pass = "retest" /\ pc = "finddirs" /\ \E i \in 1..Len(queue) : FileGone(queue[i]))
       => pass' = "full"]_vars

\* C22 amended: a retest falls back to a full pass, reusing no result, when no
\* output directory of the generator is left; when one is left and listing
\* them did not fail the retest goes on, and a survivor whose mutant file is
\* gone is pushed unchanged.
C22_NoDirectoryFallsBack ==
  [][/\ (pass = "retest" /\ pc = "finddirs" /\ outDirs = {})
          => (pass' = "full" /\ pc' = "gen" /\ results' = <<>>)
     /\ (pass = "retest" /\ pc = "finddirs" /\ outDirs # {} /\ faults' = faults)
          => pass' = "retest"
     /\ (pass = "retest" /\ pc = "access" /\ FileGone(Head(queue)))
          => (pass' = "retest" /\ results'[Len(results) + 1] = Head(queue))]_vars

\* C22 witness: the second pass is a full pass begun because no output
\* directory was left for the survivors of the first.
C22_Witness ==
  /\ iteration = 2
  /\ pass = "full"
  /\ pc = "gen"
  /\ outDirs = {}
  /\ Filter(prevResults, "survived") # <<>>

(***************************************************************************)
(* SpecParse: parseGambitMutants as a function of the mutants.log it is    *)
(* given.  A log is a list of lines, joined by line ends on disk; a line   *)
(* is a sequence of characters.                                            *)
(***************************************************************************)
MaxLines == 3        \* lines of one mutants.log

\* String.prototype.split(sep), for a separator of one character.
RECURSIVE split(_, _)
split(str, sep) ==
  LET at == {i \in 1..Len(str) : str[i] = sep} IN
  IF at = {} THEN <<str>>
  ELSE LET first == CHOOSE i \in at : \A j \in at : i <= j
       IN  <<SubSeq(str, 1, first - 1)>> \o split(SubSeq(str, first + 1, Len(str)), sep)

\* The file content of a list of lines.
RECURSIVE join(_, _)
join(lines, sep) ==
  IF lines = <<>> THEN <<>>
  ELSE IF Len(lines) = 1 THEN lines[1]
  ELSE lines[1] \o <<sep>> \o join(Tail(lines), sep)

\* NaN, which no parsed number equals.
NaN == -1

Digits == <<"0", "1", "2", "3", "4", "5", "6", "7", "8", "9">>

IsDigit(c) == \E d \in 1..10 : Digits[d] = c

DigitValue(c) == (CHOOSE d \in 1..10 : Digits[d] = c) - 1

\* parseInt: the leading digits after leading blanks, NaN when there are none.
RECURSIVE parseDigits(_, _)
parseDigits(str, acc) ==
  IF str # <<>> /\ IsDigit(Head(str))
  THEN parseDigits(Tail(str), acc * 10 + DigitValue(Head(str)))
  ELSE acc

parseInt(str) ==
  LET t == trimStart(str) IN
  IF t # <<>> /\ IsDigit(Head(t)) THEN parseDigits(t, 0) ELSE NaN

\* parseInt(x) || 0, also for an x that is undefined
parseIntOr0(parts, i) ==
  IF i > Len(parts) \/ parseInt(parts[i]) = NaN THEN 0 ELSE parseInt(parts[i])

\* mutants.log: absent, present but unreadable, or readable with its lines.
\* The lines a generator log is made of in the model: an empty line, a blank
\* one, lines of 2 and of 5 fields, and lines of 6 and 7 fields.
Logs ==
  LET LogLines ==
        { <<>>,
        <<" ">>,
        <<"7", ",", "r">>,
        <<"8", ",", "r", ",", "f", ",", "1", ":", "2", ",", "a">>,
        <<"1", ",", "r", ",", "f", ",", "3", ":", "4", ",", "a", ",", " ", "b">>,
        <<"2", ",", "b", ",", "f", ",", "5", ",", "a", ",", "b", ",", "c">>,
        <<"x", ",", "b", ",", "f", ",", "6", ":", "1", ",", "a", ",", "b">> }
  IN
  {[exists |-> FALSE, readable |-> FALSE, lines |-> <<>>]} \cup
  {[exists |-> TRUE, readable |-> r, lines |-> l] :
     r \in BOOLEAN, l \in UNION {[1..n -> LogLines] : n \in 0..MaxLines}}

\* A reading of parts.length >= 6 that asks for a seventh field.
enoughPartsSeven(parts) == Len(parts) >= 7

\* if (parts.length >= 6)
enoughParts(parts) == Len(parts) >= 6

\* mutants.push({...}) for one line of the log
Descriptor(parts, sourceFile, outputDir) ==
  LET location == split(parts[4], ":") IN
  [id |-> parseInt(parts[1]),
   mutationType |-> parts[2],
   file |-> parts[3],
   line |-> parseIntOr0(location, 1),
   column |-> parseIntOr0(location, 2),
   original |-> trim(parts[5]),
   mutated |-> trim(parts[6]),
   sourceFile |-> sourceFile,
   outputDir |-> outputDir]

\* console.log(chalk.yellow(`  Warning: ...`)), with the line it is about
Warning(text, line) == [text |-> text, line |-> line]

\* The loop over logLines: the descriptors pushed and the warnings printed.
RECURSIVE parseLines(_, _, _, _)
parseLines(logLines, sourceFile, outputDir, acc) ==
  IF logLines = <<>> THEN acc
  ELSE LET line == Head(logLines)
           parts == split(line, ",")
           rest == Tail(logLines)
       IN  IF trim(line) = <<>>
           THEN parseLines(rest, sourceFile, outputDir, acc)
           ELSE IF enoughParts(parts)
           THEN parseLines(rest, sourceFile, outputDir,
                  [acc EXCEPT !.mutants = Append(@, Descriptor(parts, sourceFile, outputDir))])
           ELSE parseLines(rest, sourceFile, outputDir,
                  [acc EXCEPT !.warnings = Append(@, Warning("Invalid mutant log line", line))])

NoMutants(text) ==
  [threw |-> FALSE, mutants |-> <<>>, warnings |-> <<Warning(text, <<>>)>>]

\* parseGambitMutants(projectPath, outputDir, sourceFile)
parseGambitMutants(log, outputDir, sourceFile) ==
  LET mutantsLog == join(log.lines, "\n") IN
  IF ~log.exists THEN NoMutants("mutants.log not found")
  ELSE IF Len(mutantsLog) = 0 THEN NoMutants("mutants.log is empty")
  ELSE IF ~log.readable THEN NoMutants("Failed to parse Gambit mutants")
  ELSE IF trim(mutantsLog) = <<>> THEN NoMutants("mutants.log is empty")
  ELSE parseLines(split(trim(mutantsLog), "\n"), sourceFile, outputDir,
                  [threw |-> FALSE, mutants |-> <<>>, warnings |-> <<>>])

InitParse ==
  /\ AtRest
  /\ called = ""
  /\ args \in {<<log, OutDir(f), f>> : log \in Logs, f \in {sourceFiles[1]}}
  /\ returned = <<>>
  /\ now = 0

ParseGambitMutants ==
  /\ called = ""
  /\ called' = "parseGambitMutants"
  /\ returned' = <<parseGambitMutants(args[1], args[2], args[3])>>
  /\ UNCHANGED <<args, now, passVars, runVars, isForgeProject, answers>>

SpecParse == InitParse /\ [][ParseGambitMutants]_vars

(***************************************************************************)
(* Claims about the generator log.                                         *)
(***************************************************************************)
\* The number of comma-separated fields of a line.
Fields(line) == Cardinality({i \in 1..Len(line) : line[i] = ","}) + 1

WellFormed(line) == Fields(line) >= 6

Malformed(line) == Fields(line) < 6

Blank(line) == \A i \in 1..Len(line) : line[i] \in WhiteSpace

\* The id field of each line of a list, as parseInt reads it.
IdsOf(lines) == [i \in 1..Len(lines) |-> parseInt(split(lines[i], ",")[1])]

Parsed == called = "parseGambitMutants"

\* A log that is missing or of size 0.
MissingOrEmpty(log) == ~log.exists \/ Len(join(log.lines, "\n")) = 0

\* C23 as stated: parsing never raises; a missing or empty log gives no
\* descriptor; any other log gives one descriptor per line of at least 6
\* fields, in log order, and one warning per malformed line.
C23_OneDescriptorPerWellFormedLine ==
  Parsed =>
    LET log == args[1]
        out == returned[1]
    IN  /\ ~out.threw
        /\ MissingOrEmpty(log) => out.mutants = <<>>
        /\ ~MissingOrEmpty(log) =>
             /\ [i \in 1..Len(out.mutants) |-> out.mutants[i].id]
                  = IdsOf(SelectSeq(log.lines, WellFormed))
             /\ [i \in 1..Len(out.warnings) |-> out.warnings[i].line]
                  = SelectSeq(log.lines, Malformed)

\* C23 amended: parsing never raises; a missing, empty or unreadable log gives
\* no descriptor; any other log gives one descriptor per line of at least 6
\* fields, in log order, and one warning per malformed line that is not blank,
\* blank lines being skipped silently.
C23_OneDescriptorPerWellFormedLineOfReadableLog ==
  Parsed =>
    LET log == args[1]
        out == returned[1]
        Warned(line) == Malformed(line) /\ ~Blank(line)
    IN  /\ ~out.threw
        /\ (MissingOrEmpty(log) \/ ~log.readable) => out.mutants = <<>>
        /\ (~MissingOrEmpty(log) /\ log.readable) =>
             /\ [i \in 1..Len(out.mutants) |-> out.mutants[i].id]
                  = IdsOf(SelectSeq(log.lines, WellFormed))
             /\ \/ [i \in 1..Len(out.warnings) |-> out.warnings[i].line]
                     = SelectSeq(log.lines, Warned)
                \/ /\ \A i \in 1..Len(log.lines) : Blank(log.lines[i])
                   /\ out.warnings = <<Warning("mutants.log is empty", <<>>)>>

\* C23 witness: a readable log holding a malformed line between two lines of
\* at least 6 fields was parsed into two descriptors and one warning.
C23_Witness ==
  /\ Parsed
  /\ args[1].readable
  /\ Len(args[1].lines) = 3
  /\ WellFormed(args[1].lines[1])
  /\ Malformed(args[1].lines[2]) /\ ~Blank(args[1].lines[2])
  /\ WellFormed(args[1].lines[3])
  /\ Len(returned[1].mutants) = 2
  /\ Len(returned[1].warnings) = 1

(***************************************************************************)
(* SpecSeverity: getMutationSeverity applied to each of a list of mutation *)
(* types.                                                                  *)
(***************************************************************************)
MaxTypes == 2        \* mutation types given in one list

InitSeverity ==
  /\ AtRest
  /\ called = ""
  /\ LET AllMutationTypes ==
          {"require-mutation", "assignment-mutation", "binary-op-mutation",
          "unary-operator-mutation", "swap-arguments-operator-mutation",
          "delete-expression-mutation", "elim-delegate-mutation", "if-cond-mutation",
          "other-mutation", "unknown"}
     IN  args \in UNION {[1..n -> AllMutationTypes] : n \in 1..MaxTypes}
  /\ returned = <<>>
  /\ now = 0

GetMutationSeverity ==
  /\ Len(returned) < Len(args)
  /\ called' = "getMutationSeverity"
  /\ returned' = Append(returned, getMutationSeverity(args[Len(returned) + 1]))
  /\ UNCHANGED <<args, now, passVars, runVars, isForgeProject, answers>>

SpecSeverity == InitSeverity /\ [][GetMutationSeverity]_vars

(***************************************************************************)
(* Claims about the severity.                                              *)
(***************************************************************************)
\* The severity table as the claim words it.
SeverityAsStated(t) ==
  IF t \in {"require-mutation", "elim-delegate-mutation"} THEN 5
  ELSE IF t \in {"assignment-mutation", "swap-arguments-operator-mutation"} THEN 4
  ELSE IF t \in {"binary-op-mutation", "unary-operator-mutation",
                 "delete-expression-mutation"} THEN 3
  ELSE 2

\* C24 as stated: the severity is 5 for require and elim-delegate, 4 for
\* assignment and swap-arguments-operator, 3 for binary-op, unary-operator and
\* delete-expression, and 2 for every other type.
C24_SeverityTable ==
  \A i \in 1..Len(returned) : returned[i] = SeverityAsStated(args[i])

\* C24 amended: the same table with if-cond-mutation at 4; every type but
\* these eight has severity 2.
C24_SeverityTableWithIfCond ==
  \A i \in 1..Len(returned) :
    returned[i] = IF args[i] = "if-cond-mutation" THEN 4 ELSE SeverityAsStated(args[i])

\* C24 witness: the severities of if-cond-mutation and of a type the map does
\* not hold were computed.
C24_Witness ==
  /\ Len(returned) = 2
  /\ args = <<"if-cond-mutation", "other-mutation">>
  /\ returned = <<4, 2>>

(***************************************************************************)
(* SpecGaps: identifyCriticalGaps as a function of the result list.        *)
(***************************************************************************)
MaxGapList == 3      \* results of a list with varied statuses and snippets
MaxSurvivors == 11   \* survivors of a list longer than the critical-gap list

\* Original snippets: without a boosted word, with require and owner, with
\* send, with a word of every group and two of the first, and with a
\* capitalised word only.
GapResults ==
  LET Originals ==
        { S_x,
        Keyword.require \o <<"(">> \o Keyword.owner,
        Keyword.send,
        Keyword.require \o Keyword.assert_ \o Keyword.transfer \o Keyword.admin,
        <<"O", "w", "n", "e", "r">> }
  IN
  UNION {[1..n -> [file : {sourceFiles[1]}, status : {"killed", "survived"},
                   mutationType : {"require-mutation", "other-mutation"},
                   original : Originals]] : n \in 1..MaxGapList}
  \cup
  [1..MaxSurvivors -> [file : {sourceFiles[1]}, status : {"survived"},
                       mutationType : {"other-mutation"}, original : {S_x, Keyword.send}]]

InitGaps ==
  /\ AtRest
  /\ called = ""
  /\ args \in GapResults
  /\ returned = <<>>
  /\ now = 0

IdentifyCriticalGaps ==
  /\ called = ""
  /\ called' = "identifyCriticalGaps"
  /\ returned' = <<identifyCriticalGaps(args)>>
  /\ UNCHANGED <<args, now, passVars, runVars, isForgeProject, answers>>

SpecGaps == InitGaps /\ [][IdentifyCriticalGaps]_vars

(***************************************************************************)
(* Claims about the critical gaps.                                         *)
(***************************************************************************)
\* The priority as the claim words it.
PriorityAsStated(m) ==
  getMutationSeverity(m.mutationType) * 10
  + (IF includes(m.original, Keyword.require) \/ includes(m.original, Keyword.assert_) THEN 20 ELSE 0)
  + (IF includes(m.original, Keyword.transfer) \/ includes(m.original, Keyword.send) THEN 15 ELSE 0)
  + (IF includes(m.original, Keyword.owner) \/ includes(m.original, Keyword.admin) THEN 10 ELSE 0)

\* The result a gap was made of.
ResultOf(g) ==
  [file |-> g.file, status |-> g.status, mutationType |-> g.mutationType,
   original |-> g.original]

\* How many elements of a sequence equal e.
Times(seq, e) == Cardinality({i \in 1..Len(seq) : seq[i] = e})

\* C25: the critical gaps are survived results, each with the stated priority;
\* they are sorted by priority descending, there are min(10, survivors) of
\* them, and no survivor left out has a higher priority than one kept.
C25_CriticalGapsTopTen ==
  called = "identifyCriticalGaps" =>
    LET gaps == returned[1]
        kept == [i \in 1..Len(gaps) |-> ResultOf(gaps[i])]
        survivors == Filter(args, "survived")
    IN  /\ \A i \in 1..Len(gaps) :
             /\ gaps[i].status = "survived"
             /\ gaps[i].priority = PriorityAsStated(kept[i])
             /\ Times(kept, kept[i]) <= Times(survivors, kept[i])
        /\ \A i, j \in 1..Len(gaps) : i < j => gaps[i].priority >= gaps[j].priority
        /\ Len(gaps) = IF Len(survivors) < 10 THEN Len(survivors) ELSE 10
        /\ \A k \in 1..Len(survivors) :
             Times(kept, survivors[k]) < Times(survivors, survivors[k])
               => \A i \in 1..Len(gaps) : gaps[i].priority >= PriorityAsStated(survivors[k])

\* C25 witness: of eleven survivors, some boosted, ten are kept, the boosted
\* ones first.
C25_Witness ==
  /\ called = "identifyCriticalGaps"
  /\ Count(args, "survived") = 11
  /\ args[1].original = S_x
  /\ args[11].original = Keyword.send
  /\ Len(returned[1]) = 10
  /\ returned[1][1].priority = 35
  /\ returned[1][10].priority = 20

(***************************************************************************)
(* SpecRecommend: generateRecommendations as a function of the result      *)
(* list.                                                                   *)
(***************************************************************************)
MaxRecommended == 4  \* results of a list with varied statuses and types
BandResults == 10    \* results of a list that can score 90 with a survivor

RecommendResults ==
  LET RecommendTypes ==
        {"require-mutation", "elim-delegate-mutation", "assignment-mutation",
        "binary-op-mutation", "other-mutation"}
  IN
  UNION {[1..n -> [file : {sourceFiles[1]}, status : PassStatuses,
                   mutationType : RecommendTypes, original : {S_x}]] :
           n \in 1..MaxRecommended}
  \cup
  [1..BandResults -> [file : {sourceFiles[1]}, status : {"killed", "survived"},
                      mutationType : {"binary-op-mutation"}, original : {S_x}]]

InitRecommend ==
  /\ AtRest
  /\ called = ""
  /\ args \in RecommendResults
  /\ returned = <<>>
  /\ now = 0

GenerateRecommendations ==
  /\ called = ""
  /\ called' = "generateRecommendations"
  /\ returned' = <<generateRecommendations(args)>>
  /\ UNCHANGED <<args, now, passVars, runVars, isForgeProject, answers>>

SpecRecommend == InitRecommend /\ [][GenerateRecommendations]_vars

(***************************************************************************)
(* Claims about the recommendations.                                       *)
(***************************************************************************)
\* The lines of the recommendations made, in order.
LinesMade == [i \in 1..Len(returned[1]) |-> returned[1][i].line]

\* A survivor of one of the given mutation types exists.
Survivor(types) ==
  \E i \in 1..Len(args) : args[i].status = "survived" /\ args[i].mutationType \in types

\* The notes that depend on the types of the survivors, in order.
TypeNotes ==
  (IF Survivor({"require-mutation", "elim-delegate-mutation"})
   THEN <<"Security concern">> ELSE <<>>)
  \o (IF Survivor({"binary-op-mutation", "unary-operator-mutation"})
      THEN <<"Logic testing">> ELSE <<>>)
  \o (IF Survivor({"assignment-mutation"}) THEN <<"State verification">> ELSE <<>>)

\* C26 as stated: without a survivor the list is the congratulatory line
\* alone; with a survivor it is a worst-file line, a worst-type line, the
\* notes the survivors' types call for, and a closing remark.
C26_RecommendationLines ==
  called = "generateRecommendations" =>
    IF Count(args, "survived") = 0
    THEN LinesMade = <<"Excellent">>
    ELSE \E closing \in {"Critical", "Moderate", "Good"} :
           LinesMade = <<"Focus on file", "mutations need attention">>
                         \o TypeNotes \o <<closing>>

\* C26 amended: the same, but the worst-type line is made only when one of
\* the three most problematic types has a survivor, and the closing remark
\* only when the score killed / total * 100 is below 90: Critical below 50,
\* Moderate below 75, Good below 90.
C26_RecommendationLinesBelowNinety ==
  called = "generateRecommendations" =>
    IF Count(args, "survived") = 0
    THEN LinesMade = <<"Excellent">>
    ELSE LET score100 == Count(args, "killed") * 100
             top == mostProblematic(args)
         IN  LinesMade =
               <<"Focus on file">>
               \o (IF \E i \in 1..Len(top) : top[i].survived > 0
                   THEN <<"mutations need attention">> ELSE <<>>)
               \o TypeNotes
               \o (IF score100 < 50 * Len(args) THEN <<"Critical">>
                   ELSE IF score100 < 75 * Len(args) THEN <<"Moderate">>
                   ELSE IF score100 < 90 * Len(args) THEN <<"Good">>
                   ELSE <<>>)

\* C26 witness: nine of ten results are killed and one survived, and the
\* recommendations end with the note on its type.
C26_Witness ==
  /\ called = "generateRecommendations"
  /\ Len(args) = 10
  /\ Count(args, "killed") = 9
  /\ Count(args, "survived") = 1
  /\ LinesMade = <<"Focus on file", "mutations need attention", "Logic testing">>

(***************************************************************************)
(* SpecRemap: the import remappings runMutationTestingWithoutSetup writes  *)
(* into the generator configs, as a function of the project kind and of    *)
(* what "forge remappings" printed.                                        *)
(***************************************************************************)
MaxRemappings == 3   \* lines "forge remappings" prints

\* The allow-list: a remapping is kept when it includes one of these.
Allowed ==
  [openzeppelin |-> <<"@", "o", "p", "e", "n", "z", "e", "p", "p", "e", "l", "i", "n", "/", "c", "o", "n", "t", "r", "a", "c", "t", "s", "/", "=">>,
   upgradeable |-> <<"@", "o", "p", "e", "n", "z", "e", "p", "p", "e", "l", "i", "n", "/", "c", "o", "n", "t", "r", "a", "c", "t", "s", "-", "u", "p", "g", "r", "a", "d", "e", "a", "b", "l", "e", "/", "=">>,
   v4_core |-> <<"v", "4", "-", "c", "o", "r", "e", "/", "=">>,
   v4_periphery |-> <<"v", "4", "-", "p", "e", "r", "i", "p", "h", "e", "r", "y", "/", "=">>,
   uniswap |-> <<"@", "u", "n", "i", "s", "w", "a", "p", "/", "v", "4", "-", "c", "o", "r", "e", "/", "=">>,
   forge_std |-> <<"f", "o", "r", "g", "e", "-", "s", "t", "d", "/", "=">>,
   solady |-> <<"s", "o", "l", "a", "d", "y", "/", "=">>]

AllowList ==
  {Allowed.openzeppelin, Allowed.upgradeable, Allowed.v4_core, Allowed.v4_periphery, Allowed.uniswap, Allowed.forge_std, Allowed.solady}

\* The fallback list of setupGambitConfigWithoutDependencies for a Forge
\* project (targets shortened).
DefaultForgeRemappings ==
  << Allowed.openzeppelin \o <<"l", "i", "b">>,
     Allowed.uniswap \o <<"l", "i", "b">>,
     Allowed.v4_core \o <<"l", "i", "b">>,
     Allowed.forge_std \o <<"l", "i", "b">>,
     <<"d", "s", "-", "t", "e", "s", "t", "/", "=", "l", "i", "b">>,
     Allowed.solady \o <<"l", "i", "b">> >>

S_Warning == <<"W", "a", "r", "n", "i", "n", "g", ":">>

\* What execAsync('forge remappings') gives: it rejects, or resolves with
\* the lines printed.
\* Lines "forge remappings" can print: two remappings of the allow-list, one
\* outside it, and a warning.
Discoveries ==
  LET RemappingLines ==
        { Allowed.forge_std \o <<"l", "i", "b">>,
        <<" ">> \o Allowed.solady \o <<"l", "i", "b">>,
        <<"d", "s", "-", "t", "e", "s", "t", "/", "=", "l", "i", "b">>,
        S_Warning \o <<" ", "x">> }
  IN
  {[failed |-> TRUE, lines |-> <<>>]} \cup
  {[failed |-> FALSE, lines |-> l] :
     l \in UNION {[1..n -> RemappingLines] : n \in 0..MaxRemappings}}

\* solcRemappings of runMutationTestingWithoutSetup
solcRemappings(forge, discovery) ==
  IF ~forge THEN <<>>
  ELSE IF discovery.failed
  THEN \* catch (e) { console.log('  Could not get forge remappings, using defaults') }
       <<>>
  ELSE LET remappingsOutput == join(discovery.lines, "\n")
           \* .filter(line => line.trim() && !line.startsWith('Warning:'))
           remappingLine(line) == trim(line) # <<>> /\ ~startsWith(line, S_Warning)
           kept == SelectSeq(split(trim(remappingsOutput), "\n"), remappingLine)
           allRemappings == [i \in 1..Len(kept) |-> trim(kept[i])]
           \* The filter of allRemappings
           essential(mapping) == \E a \in AllowList : includes(mapping, a)
       IN  SelectSeq(allRemappings, essential)

\* The generator config of one file, as far as the remappings go:
\* if (solcRemappings.length > 0) config.solc_remappings = solcRemappings
generatorConfig(remappings) ==
  [has_solc_remappings |-> Len(remappings) > 0, solc_remappings |-> remappings]

InitRemap ==
  /\ AtRest
  /\ called = ""
  /\ args \in {<<forge, d>> : forge \in BOOLEAN, d \in Discoveries}
  /\ returned = <<>>
  /\ now = 0

WriteGeneratorConfig ==
  /\ called = ""
  /\ called' = "writeConfig"
  /\ returned' = <<generatorConfig(solcRemappings(args[1], args[2]))>>
  /\ UNCHANGED <<args, now, passVars, runVars, isForgeProject, answers>>

SpecRemap == InitRemap /\ [][WriteGeneratorConfig]_vars

(***************************************************************************)
(* Claims about the remappings.                                            *)
(***************************************************************************)
\* C27: every remapping written into a generator config matches the
\* allow-list when discovery succeeded, and when discovery failed the config
\* holds the fallback default list.
C27_AllowListOrFallback ==
  called = "writeConfig" =>
    LET forge == args[1]
        discovery == args[2]
        config == returned[1]
    IN  /\ ~discovery.failed =>
             \A i \in 1..Len(config.solc_remappings) :
               \E a \in AllowList : includes(config.solc_remappings[i], a)
        /\ (forge /\ discovery.failed) =>
             /\ config.has_solc_remappings
             /\ config.solc_remappings = DefaultForgeRemappings

(***************************************************************************)
(* SpecMap: runMutationTestingWithoutSetup of src/services/gambit.service   *)
(* (first GambitService of the file), where the evaluation loop finds the   *)
(* source file and the output directory of a descriptor in mutantToFileMap, *)
(* a Map keyed by the mutant id.  called is the phase of the call and       *)
(* returned holds mutantToFileMap.                                          *)
(***************************************************************************)
MaxIds == 2          \* mutants the generator yields for one file

\* mutantToFileMap.set(mutant.id, {sourceFile, outputDir}) for each mutant of
\* fileMutants
mapSet(map, fileMutants, sourceFile, outputDir) ==
  LET ids == {fileMutants[i].id : i \in 1..Len(fileMutants)} IN
  [id \in (DOMAIN map) \cup ids |->
     IF id \in ids THEN [sourceFile |-> sourceFile, outputDir |-> outputDir] ELSE map[id]]

InitMap ==
  /\ AtRest
  /\ called = "generate"
  /\ args = <<>>
  /\ returned = <<>>
  /\ now = 0

\* One iteration of the generation loop: the generator numbers the mutants
\* of a file from 1.
MapFile ==
  /\ called = "generate"
  /\ genIdx <= Len(sourceFiles)
  /\ \E n \in 0..MaxIds :
       LET sourceFile == sourceFiles[genIdx]
           outdir == OutDir(sourceFile)
           fileMutants == [i \in 1..n |-> Mutant(sourceFile, outdir, i)]
           all == push(allMutants, fileMutants)
       IN  /\ allMutants' = all
           /\ returned' = mapSet(returned, fileMutants, sourceFile, outdir)
           /\ genIdx' = genIdx + 1
           /\ IF genIdx < Len(sourceFiles) THEN UNCHANGED <<called, queue>>
              ELSE IF all = <<>> THEN called' = "threw" /\ UNCHANGED queue
              ELSE called' = "test" /\ queue' = all
  /\ UNCHANGED <<args, now, runVars, isForgeProject, answers>>
  /\ UNCHANGED <<proc, pc, results, prevResults, iteration, pass, cur, evalCount, source,
                 backup, mutantFiles, outDirs, listeners, handlers, restoreErr, faults,
                 signals>>

\* One iteration of the evaluation loop: testSingleMutant is called with
\* mutantInfo.sourceFile and mutantInfo.outputDir; the result records the
\* source file it was given and the mutant file that was copied over it.
TestMapped ==
  /\ called = "test"
  /\ queue # <<>>
  /\ LET mutant == Head(queue)
         mutantInfo == returned[mutant.id]
     IN  \E st \in PassStatuses :
           results' = Append(results,
                        Result(Mutant(mutantInfo.sourceFile, mutantInfo.outputDir, mutant.id), st))
  /\ queue' = Tail(queue)
  /\ UNCHANGED <<callVars, runVars, isForgeProject, answers>>
  /\ UNCHANGED <<proc, pc, genIdx, allMutants, prevResults, iteration, pass, cur, evalCount,
                 source, backup, mutantFiles, outDirs, listeners, handlers, restoreErr,
                 faults, signals>>

NextMap ==
  \/ MapFile
  \/ TestMapped

SpecMap == InitMap /\ [][NextMap]_vars

(***************************************************************************)
(* Claims about the descriptors.                                           *)
(***************************************************************************)
\* C29: the k-th evaluation copies the mutant file generated for the k-th
\* descriptor (same source file, same output directory, same id) and its
\* result records that source file.
C29_EvaluatesOwnMutant ==
  called = "test" =>
    \A k \in 1..Len(results) :
      /\ results[k].file = allMutants[k].file
      /\ MutantPath(results[k].outputDir, results[k].mutantId, results[k].file)
           = MutantPath(allMutants[k].dir, allMutants[k].id, allMutants[k].file)

(***************************************************************************)
(* Claims about the results of a retest pass.                              *)
(***************************************************************************)
\* A retest pass has returned.
RetestReturned == pc = "done" /\ pass = "retest" /\ proc = "running"

\* The mutant a result is about.
Identity(r) == <<r.file, r.outputDir, r.mutantId>>

Identities(res) == {Identity(res[i]) : i \in 1..Len(res)}

\* C28 as stated: a retest pass returns exactly one result for every mutant
\* of the previous result list, whatever the previous statuses were.
C28_RetestKeepsEveryMutant ==
  RetestReturned =>
    /\ Len(results) = Len(prevResults)
    /\ Identities(results) = Identities(prevResults)

\* C28 amended: when the previous list has no survivor the retest returns it
\* as it is; otherwise it returns exactly one result for every mutant that was
\* killed or survived, and none for a mutant of any other status.
C28_RetestKeepsKilledAndSurvived ==
  RetestReturned =>
    IF Count(prevResults, "survived") = 0 THEN results = prevResults
    ELSE LET kept == Filter(prevResults, "killed") \o Filter(prevResults, "survived") IN
         /\ Len(results) = Len(kept)
         /\ Identities(results) = Identities(kept)
         /\ Cardinality(Identities(results)) = Len(results)

\* C28 witness: the previous list held a killed result and a survivor, and
\* the retest has returned one result for each.
C28_Witness ==
  /\ RetestReturned
  /\ Count(prevResults, "killed") = 1
  /\ Count(prevResults, "survived") = 1
  /\ Len(results) = 2
  /\ evalCount = 3

(***************************************************************************)
(* SpecFlip: calculateGuardianScore applied to a result list and to the    *)
(* same list with one survived result turned into a killed one.            *)
(***************************************************************************)
\* The list with the status of result i changed from survived to killed.
Flipped(res, i) == [res EXCEPT ![i].status = "killed"]

InitFlip ==
  /\ AtRest
  /\ called = ""
  /\ args \in {<<res, i>> : res \in ScoredResults, i \in 1..MaxScored}
  /\ args[2] <= Len(args[1])
  /\ args[1][args[2]].status = "survived"
  /\ returned = <<>>
  /\ now = 0

\* The guardian score of the list as it is, then of the flipped list.
CalculateGuardianScore ==
  /\ Len(returned) < 2
  /\ called' = "calculateGuardianScore"
  /\ returned' = Append(returned,
                   calculateGuardianScore(IF returned = <<>> THEN args[1]
                                          ELSE Flipped(args[1], args[2])))
  /\ UNCHANGED <<args, now, passVars, runVars, isForgeProject, answers>>

SpecFlip == InitFlip /\ [][CalculateGuardianScore]_vars

\* C30: turning one survived result into a killed one, the others unchanged,
\* never lowers the guardian score.
C30_KillingNeverLowersScore ==
  Len(returned) = 2 => returned[2] >= returned[1]

\* C30 witness: the only survivor of one of two files was turned into a killed
\* result, which costs the list part of its distribution bonus, and the score
\* rose.
C30_Witness ==
  /\ Len(returned) = 2
  /\ Cardinality(FilesOf(args[1])) = 2
  /\ Cardinality(FilesOf(Filter(args[1], "survived"))) = 2
  /\ Cardinality(FilesOf(Filter(Flipped(args[1], args[2]), "survived"))) = 1
  /\ returned[2] > returned[1]

====
